---- MODULE Spec2Model ----
(***************************************************************************)
(* dep-minder: the tokenizer/parser (src/src/parser.ts) and the trace      *)
(* graph and validation engine (src/src/validate.ts) as state machines.    *)
(*                                                                         *)
(* A text is a sequence of one-character strings.  An optional value       *)
(* (undefined in the source) is the empty sequence <<>>; a present one of  *)
(* a type that may itself be empty is wrapped: <<v>>.                      *)
(***************************************************************************)
EXTENDS Integers, Sequences, FiniteSets, TLC

VARIABLES
    pc,           \* position of the running operation
    resEnabled,   \* resolution?.enabled
    text,         \* parseLayerFile: options.text
    fileLayer,    \* parseLayerFile: index of the layer whose patterns are layerIdPatterns
    ps,           \* parseLayerFile: its locals and its output
    layerScope,   \* validateTraceability: layerIndex, <<>> when no --layer is given
    fileText,     \* validateTraceability: the text read for each file so far
    parsedLayers, \* validateTraceability: parsedLayers
    issues,       \* validateTraceability: issues
    traceGraph,   \* validateTraceability: traceGraph
    cursor,       \* validateTraceability: how far the running loop has come
    disk,         \* the files as they are on disk, by relative path
    cliOptions,   \* cli.ts: options.setResolution, fixResolution, dryRun
    edits,        \* cli.ts: what computeResolutionEdits returned
    result,       \* cli.ts: what applyResolutionEdits returned, or the fatal error
    runs,         \* how many runs of the command line have started
    touched       \* how often a file was changed behind the tool's back

parserVars == <<text, fileLayer, ps>>

validateVars == <<layerScope, fileText, parsedLayers, issues, traceGraph, cursor>>

writerVars == <<disk, cliOptions, edits, result, runs, touched>>

vars == <<pc, resEnabled, parserVars, validateVars, writerVars>>

-----------------------------------------------------------------------------
(* Character classes of the regular expressions in parser.ts               *)

UpperLetters ==
    {"A","B","C","D","E","F","G","H","I","J","K","L","M",
     "N","O","P","Q","R","S","T","U","V","W","X","Y","Z"}

LowerLetters ==
    {"a","b","c","d","e","f","g","h","i","j","k","l","m",
     "n","o","p","q","r","s","t","u","v","w","x","y","z"}

Letters == UpperLetters \cup LowerLetters

Digits == {"0","1","2","3","4","5","6","7","8","9"}

\* /\s/
Whitespace == {" ", "\n", "\t", "\r", "\f"}

\* /[A-Za-z0-9._-]/
isAllowedTokenChar(char) == char \in Letters \cup Digits \cup {".", "_", "-"}

\* /^[A-Za-z](?:[A-Za-z0-9._-]*[A-Za-z0-9])?$/
GLOBAL_ID_REGEX(value) ==
    /\ Len(value) >= 1
    /\ value[1] \in Letters
    /\ Len(value) > 1 =>
          /\ value[Len(value)] \in Letters \cup Digits
          /\ \A i \in 2..(Len(value) - 1) : isAllowedTokenChar(value[i])

-----------------------------------------------------------------------------
(* String helpers (JavaScript String methods on sequences of characters)   *)

\* value.slice(from) with a 0-based start
SliceFrom(value, from) == SubSeq(value, from + 1, Len(value))

\* value.slice(from, to) with 0-based bounds, to exclusive, both clamped to
\* the length
Slice(value, from, to) ==
    SubSeq(value, (IF from > Len(value) THEN Len(value) ELSE from) + 1,
                  IF to > Len(value) THEN Len(value) ELSE to)

\* value.startsWith(prefix, index) with a 0-based index
StartsWith(value, prefix, index) ==
    /\ index + Len(prefix) <= Len(value)
    /\ \A i \in 1..Len(prefix) : value[index + i] = prefix[i]

\* value.indexOf(needle, from): the first 0-based position >= from, or -1
IndexOf(value, needle, from) ==
    LET hits == {i \in from..(Len(value) - Len(needle)) : StartsWith(value, needle, i)}
    IN  IF hits = {} THEN -1 ELSE CHOOSE i \in hits : \A j \in hits : i <= j

\* raw.length - raw.trimStart().length
LeadingWhitespace(raw) ==
    LET stops == {i \in 1..Len(raw) : raw[i] \notin Whitespace}
    IN  IF stops = {} THEN Len(raw)
        ELSE (CHOOSE i \in stops : \A j \in stops : i <= j) - 1

\* raw.trim()
Trim(raw) ==
    LET keep == {i \in 1..Len(raw) : raw[i] \notin Whitespace}
    IN  IF keep = {} THEN <<>>
        ELSE SubSeq(raw, CHOOSE i \in keep : \A j \in keep : i <= j,
                         CHOOSE i \in keep : \A j \in keep : i >= j)

-----------------------------------------------------------------------------
(* Configuration: three ordered layers, README's grouping delimiters, the  *)
(* tests' "@" marker separator.                                            *)

Str_L0 == <<"L", "0">>
Str_L1 == <<"L", "1">>
Str_L2 == <<"L", "2">>

\* config.layers: name and the leading letter of its id pattern <letter>[0-9]+
Layers ==
    << [name |-> Str_L0, letter |-> "A"],
       [name |-> Str_L1, letter |-> "B"],
       [name |-> Str_L2, letter |-> "C"] >>

LayerCount == Len(Layers)

LayerIndices == 0..(LayerCount - 1)

\* config.layers[index] for a 0-based index
LayerAt(index) == Layers[index + 1]

\* new RegExp(`^${pattern}$`).test(value) for the pattern <letter>[0-9]+
PatternTest(letter, value) ==
    /\ Len(value) >= 2
    /\ value[1] = letter
    /\ \A i \in 2..Len(value) : value[i] \in Digits

\* layerRegexes[index] ?? [] tested with matchesAny; no layer, no pattern
matchesAny(layerIndex, value) ==
    /\ layerIndex \in LayerIndices
    /\ PatternTest(LayerAt(layerIndex).letter, value)

groupingStart == <<"[">>
groupingEnd == <<"]">>
groupingSeparator == <<",">>
passthroughPrefix == <<"P", "T", ":">>
resolutionSeparator == <<"@">>

\* resolution.layerNames
layerNames == {Layers[i].name : i \in 1..Len(Layers)}

\* resolution.aliasToName
aliasToName == [alias \in {<<"M", "1">>} |-> Str_L1]

-----------------------------------------------------------------------------
(* parser.ts                                                               *)

Issue(code, line, detail) == [code |-> code, line |-> line, detail |-> detail]

Token(id, raw, line, resolution) ==
    [id |-> id, raw |-> raw, line |-> line, resolution |-> resolution]

EmptyOutput == [definitions |-> <<>>, references |-> <<>>, issues |-> <<>>]

\* findResolutionSplit: <<>> for null, else <<[id, level]>>
RECURSIVE findResolutionSplitFrom(_, _, _)
findResolutionSplitFrom(value, separator, index) ==
    IF index <= 0 THEN <<>>
    ELSE IF GLOBAL_ID_REGEX(Slice(value, 0, index))
         THEN << [id |-> Slice(value, 0, index),
                  level |-> SliceFrom(value, index + Len(separator))] >>
         ELSE findResolutionSplitFrom(value, separator,
                  IndexOf(value, separator, index + Len(separator)))

findResolutionSplit(value, separator) ==
    IF Len(separator) = 0 THEN <<>>
    ELSE findResolutionSplitFrom(value, separator, IndexOf(value, separator, 0))

\* resolution.aliases is an object literal filled key by key (config.ts 136),
\* so the lookup options.aliasToName[level] also finds the members every
\* object inherits from Object.prototype; three of their names, all made of
\* characters a level may hold.
Str_valueOf == <<"v", "a", "l", "u", "e", "O", "f">>
Str_toString == <<"t", "o", "S", "t", "r", "i", "n", "g">>
Str_constructor == <<"c", "o", "n", "s", "t", "r", "u", "c", "t", "o", "r">>

ObjectPrototypeKeys == {Str_valueOf, Str_toString, Str_constructor}

\* What such a lookup yields: a function, no layer name
InheritedMember(key) == <<"Object.prototype.">> \o key

\* resolveResolutionLevel: <<>> for undefined, else what the lookup found
resolveResolutionLevel(level) ==
    IF level \in layerNames THEN level
    ELSE IF level \in DOMAIN aliasToName THEN aliasToName[level]
    ELSE IF level \in ObjectPrototypeKeys THEN InheritedMember(level)
    ELSE <<>>

\* resolveTokenLineFromSegment
resolveTokenLineFromSegment(segment, startIndex) ==
    Cardinality({i \in 1..startIndex : segment[i] = "\n"})

\* pushSegment inside splitGroupingTokens
pushSegment(tokens, segment, segmentStartLineOffset, startLine) ==
    IF Len(Trim(segment)) > 0
    THEN Append(tokens,
             [raw |-> Trim(segment),
              line |-> startLine + segmentStartLineOffset
                       + resolveTokenLineFromSegment(segment, LeadingWhitespace(segment))])
    ELSE tokens

RECURSIVE splitGroupingLoop(_, _, _, _, _, _, _, _)
splitGroupingLoop(content, startLine, separator, index, lineOffset, segmentStartLineOffset, segment, tokens) ==
    IF index >= Len(content)
    THEN pushSegment(tokens, segment, segmentStartLineOffset, startLine)
    ELSE IF Len(separator) > 0 /\ StartsWith(content, separator, index)
    THEN splitGroupingLoop(content, startLine, separator, index + Len(separator),
             lineOffset, lineOffset, <<>>,
             pushSegment(tokens, segment, segmentStartLineOffset, startLine))
    ELSE splitGroupingLoop(content, startLine, separator, index + 1,
             IF content[index + 1] = "\n" THEN lineOffset + 1 ELSE lineOffset,
             segmentStartLineOffset, Append(segment, content[index + 1]), tokens)

splitGroupingTokens(content, startLine, separator) ==
    splitGroupingLoop(content, startLine, separator, 0, 0, 0, <<>>, <<>>)

\* handleTokenResolution with the fault of also judging the level of a marker
\* that stands inside a grouping or a quote
handleTokenResolutionNoSuppression(normalized, line, enabled, inQuote, inGrouping, resolutionLevel) ==
    LET plain == [id |-> normalized, resolution |-> <<>>, issues |-> <<>>]
    IN  IF ~enabled THEN plain
        ELSE IF inQuote \/ inGrouping
        THEN LET split == findResolutionSplit(normalized, resolutionSeparator)
             IN  IF split # <<>>
                 THEN [id |-> split[1].id, resolution |-> <<>>,
                       issues |-> << Issue("E111", line, <<>>) >>
                                  \o IF resolveResolutionLevel(split[1].level) = <<>>
                                     THEN << Issue("E110", line, split[1].level) >>
                                     ELSE <<>>]
                 ELSE plain
        ELSE IF resolutionLevel # <<>>
        THEN LET resolved == resolveResolutionLevel(resolutionLevel[1])
             IN  IF resolved = <<>>
                 THEN [plain EXCEPT !.issues = << Issue("E110", line, resolutionLevel[1]) >>]
                 ELSE [plain EXCEPT !.resolution = resolved]
        ELSE plain

\* The resolution block at the head of handleToken (lines 184-212):
\* the id, the resolved level and the issues it adds.
handleTokenResolution(normalized, line, enabled, inQuote, inGrouping, resolutionLevel) ==
    LET plain == [id |-> normalized, resolution |-> <<>>, issues |-> <<>>]
    IN  IF ~enabled THEN plain
        ELSE IF inQuote \/ inGrouping
        THEN LET split == findResolutionSplit(normalized, resolutionSeparator)
             IN  IF split # <<>>
                 THEN [id |-> split[1].id, resolution |-> <<>>,
                       issues |-> << Issue("E111", line, <<>>) >>]
                 ELSE plain
        ELSE IF resolutionLevel # <<>>
        THEN LET resolved == resolveResolutionLevel(resolutionLevel[1])
             IN  IF resolved = <<>>
                 THEN [plain EXCEPT !.issues = << Issue("E110", line, resolutionLevel[1]) >>]
                 ELSE [plain EXCEPT !.resolution = resolved]
        ELSE plain

\* handleToken: the output after the token has been handled
handleToken(raw, normalized, line, context, layerIndex, enabled, output, inQuote, inGrouping, resolutionLevel) ==
    IF Len(raw) = 0 THEN output
    ELSE
    LET res == handleTokenResolution(normalized, line, enabled, inQuote, inGrouping,
                                     resolutionLevel)
        out1 == [output EXCEPT !.issues = output.issues \o res.issues]
        matchesLayer == matchesAny(layerIndex, res.id)
        matchesUpstream == matchesAny(layerIndex - 1, res.id)
        token == Token(res.id, raw, line, res.resolution)
    IN  IF ~matchesLayer /\ ~matchesUpstream THEN out1
        ELSE IF ~GLOBAL_ID_REGEX(res.id)
        THEN [out1 EXCEPT !.issues = Append(out1.issues, Issue("E020", line, raw))]
        ELSE IF matchesLayer /\ context = "definition"
        THEN [out1 EXCEPT !.definitions = Append(out1.definitions, token)]
        ELSE [out1 EXCEPT !.references = Append(out1.references, token)]

\* The options parseLayerFile reads: the text, the layer whose patterns are
\* layerIdPatterns (the layer before it gives upstreamIdPatterns), and
\* options.resolution?.enabled.
ParserOptions(content, layerIndex, enabled) ==
    [text |-> content, layerIndex |-> layerIndex, enabled |-> enabled]

\* The locals of parseLayerFile at line 255-263 (column is never read)
InitialParse ==
    [index |-> 0, line |-> 1, inGrouping |-> FALSE, groupingStartLine |-> 1,
     groupingBuffer |-> <<>>, tokenBuffer |-> <<>>, tokenLine |-> 1,
     output |-> EmptyOutput, returned |-> FALSE]

\* advance with the fault of leaving the read index where it is
advanceNowhere(st, options, count) == st

\* advance(count)
advance(st, options, count) ==
    [st EXCEPT
       !.line = st.line + Cardinality({i \in (st.index + 1)..(st.index + count) :
                                          i <= Len(options.text) /\ options.text[i] = "\n"}),
       !.index = st.index + count]

\* flushToken(context, resolutionLevel)
flushToken(st, options, context, resolutionLevel) ==
    IF Len(st.tokenBuffer) = 0 THEN st
    ELSE [st EXCEPT
            !.output = handleToken(st.tokenBuffer, st.tokenBuffer, st.tokenLine, context,
                                   options.layerIndex, options.enabled, st.output,
                                   FALSE, FALSE, resolutionLevel),
            !.tokenBuffer = <<>>]

\* handleGroupingToken with the fault of handing the piece on as "definition"
handleGroupingTokenAsDefinition(token, options, output) ==
    LET original == token.raw
        stripped == StartsWith(original, passthroughPrefix, 0)
        normalized == IF stripped THEN SliceFrom(original, Len(passthroughPrefix))
                      ELSE original
    IN  IF stripped /\ Len(Trim(normalized)) = 0
        THEN [output EXCEPT !.issues = Append(output.issues, Issue("E020", token.line, original))]
        ELSE handleToken(original, normalized, token.line, "definition",
                         options.layerIndex, options.enabled, output, FALSE, TRUE, <<>>)

\* handleGroupingToken with the fault of never stripping the passthrough prefix
handleGroupingTokenNoPassthrough(token, options, output) ==
    handleToken(token.raw, token.raw, token.line, "reference",
                options.layerIndex, options.enabled, output, FALSE, TRUE, <<>>)

\* One piece of a closed grouping (lines 315-344)
handleGroupingToken(token, options, output) ==
    LET original == token.raw
        stripped == StartsWith(original, passthroughPrefix, 0)
        normalized == IF stripped THEN SliceFrom(original, Len(passthroughPrefix))
                      ELSE original
    IN  IF stripped /\ Len(Trim(normalized)) = 0
        THEN [output EXCEPT !.issues = Append(output.issues, Issue("E020", token.line, original))]
        ELSE handleToken(original, normalized, token.line, "reference",
                         options.layerIndex, options.enabled, output, FALSE, TRUE, <<>>)

RECURSIVE handleGroupingTokens(_, _, _, _)
handleGroupingTokens(tokens, i, options, output) ==
    IF i > Len(tokens) THEN output
    ELSE handleGroupingTokens(tokens, i + 1, options,
                              handleGroupingToken(tokens[i], options, output))

\* The level scanned after the marker separator (lines 395-400)
scanResolutionLevel(options, from) ==
    LET stops == {i \in from..Len(options.text) :
                     i = Len(options.text) \/ ~isAllowedTokenChar(options.text[i + 1])}
    IN  Slice(options.text, from, CHOOSE i \in stops : \A j \in stops : i <= j)

\* Which branch of the scan loop the next iteration takes
Branch(st, options) ==
    IF st.returned THEN "returned"
    ELSE IF st.index >= Len(options.text) THEN "endOfInput"
    ELSE IF st.inGrouping
    THEN IF Len(groupingEnd) > 0 /\ StartsWith(options.text, groupingEnd, st.index)
         THEN "groupingClose" ELSE "groupingAccumulate"
    ELSE IF Len(groupingStart) > 0 /\ StartsWith(options.text, groupingStart, st.index)
    THEN "groupingOpen"
    ELSE IF Len(groupingEnd) > 0 /\ StartsWith(options.text, groupingEnd, st.index)
    THEN "strayGroupingEnd"
    ELSE IF Len(groupingSeparator) > 0 /\ StartsWith(options.text, groupingSeparator, st.index)
    THEN "separator"
    ELSE IF /\ options.enabled
            /\ Len(st.tokenBuffer) > 0
            /\ Len(resolutionSeparator) > 0
            /\ StartsWith(options.text, resolutionSeparator, st.index)
    THEN "resolutionMarker"
    ELSE IF \/ options.text[st.index + 1] \in Whitespace
            \/ ~isAllowedTokenChar(options.text[st.index + 1])
    THEN "flushChar"
    ELSE "accumulate"

\* groupingClose with the fault of accepting a grouping without pieces
groupingCloseSilent(st, options) ==
    LET tokens == splitGroupingTokens(st.groupingBuffer, st.groupingStartLine, groupingSeparator)
    IN  advance([st EXCEPT !.output = handleGroupingTokens(tokens, 1, options, st.output),
                           !.groupingBuffer = <<>>, !.inGrouping = FALSE],
                options, Len(groupingEnd))

\* lines 301-351: the end delimiter closes the open grouping
groupingClose(st, options) ==
    LET tokens == splitGroupingTokens(st.groupingBuffer, st.groupingStartLine, groupingSeparator)
        out == IF Len(tokens) = 0
               THEN [st.output EXCEPT
                       !.issues = Append(st.output.issues,
                                         Issue("E010", st.groupingStartLine, <<>>))]
               ELSE handleGroupingTokens(tokens, 1, options, st.output)
    IN  advance([st EXCEPT !.output = out, !.groupingBuffer = <<>>, !.inGrouping = FALSE],
                options, Len(groupingEnd))

\* lines 354-357
groupingAccumulate(st, options) ==
    advance([st EXCEPT !.groupingBuffer = Append(st.groupingBuffer, options.text[st.index + 1])],
            options, 1)

\* lines 368-375
groupingOpen(st, options) ==
    LET flushed == flushToken(st, options, "definition", <<>>)
    IN  advance([flushed EXCEPT !.inGrouping = TRUE, !.groupingStartLine = st.line,
                                !.groupingBuffer = <<>>],
                options, Len(groupingStart))

\* lines 377-384
strayGroupingEnd(st, options) ==
    LET flushed == flushToken(st, options, "definition", <<>>)
    IN  advance([flushed EXCEPT !.output.issues =
                     Append(flushed.output.issues, Issue("E010", st.line, <<>>))],
                options, Len(groupingEnd))

\* lines 386-390
separatorFlush(st, options) ==
    advance(flushToken(st, options, "definition", <<>>), options, Len(groupingSeparator))

\* lines 392-405
resolutionMarker(st, options) ==
    LET resolutionLevel == scanResolutionLevel(options, st.index + Len(resolutionSeparator))
    IN  advance(flushToken(st, options, "definition", <<resolutionLevel>>),
                options, Len(resolutionSeparator) + Len(resolutionLevel))

\* lines 407-418
flushChar(st, options) ==
    advance(flushToken(st, options, "definition", <<>>), options, 1)

\* lines 420-424
accumulate(st, options) ==
    advance([st EXCEPT !.tokenLine = IF Len(st.tokenBuffer) = 0 THEN st.line ELSE st.tokenLine,
                       !.tokenBuffer = Append(st.tokenBuffer, options.text[st.index + 1])],
            options, 1)

\* lines 427-435
endOfInput(st, options) ==
    LET flushed == flushToken(st, options, "definition", <<>>)
    IN  [flushed EXCEPT
           !.output.issues = IF st.inGrouping
                             THEN Append(flushed.output.issues,
                                         Issue("E010", st.groupingStartLine, <<>>))
                             ELSE flushed.output.issues,
           !.returned = TRUE]

\* One iteration of the while loop of parseLayerFile, or its epilogue
parseStep(st, options) ==
    CASE Branch(st, options) = "groupingClose" -> groupingClose(st, options)
      [] Branch(st, options) = "groupingAccumulate" -> groupingAccumulate(st, options)
      [] Branch(st, options) = "groupingOpen" -> groupingOpen(st, options)
      [] Branch(st, options) = "strayGroupingEnd" -> strayGroupingEnd(st, options)
      [] Branch(st, options) = "separator" -> separatorFlush(st, options)
      [] Branch(st, options) = "resolutionMarker" -> resolutionMarker(st, options)
      [] Branch(st, options) = "flushChar" -> flushChar(st, options)
      [] Branch(st, options) = "accumulate" -> accumulate(st, options)
      [] Branch(st, options) = "endOfInput" -> endOfInput(st, options)
      [] OTHER -> st

RECURSIVE parseRun(_, _)
parseRun(st, options) ==
    IF st.returned THEN st.output ELSE parseRun(parseStep(st, options), options)

\* parseLayerFile(options): {definitions, references, issues}
parseLayerFile(options) == parseRun(InitialParse, options)

-----------------------------------------------------------------------------
(* validate.ts: the trace graph                                            *)

\* token.offset, token.length: undefined (<<>>) on a token without the field,
\* as on the tokens parser.ts builds
fieldOf(token, name) == IF name \in DOMAIN token THEN token[name] ELSE <<>>

\* toTokenWithSource
toTokenWithSource(token, filePath) ==
    [id |-> token.id, raw |-> token.raw, line |-> token.line, filePath |-> filePath,
     offset |-> fieldOf(token, "offset"), length |-> fieldOf(token, "length"),
     resolution |-> token.resolution]

\* A Map from id to token is its entries in insertion order, keyed by token.id
MapHas(map, id) == \E i \in 1..Len(map) : map[i].id = id

MapGet(map, id) == map[CHOOSE i \in 1..Len(map) : map[i].id = id]

MapKeys(map) == {map[i].id : i \in 1..Len(map)}

addToMapIfMissing(map, token) == IF MapHas(map, token.id) THEN map ELSE Append(map, token)

RECURSIVE addAllIfMissing(_, _)
addAllIfMissing(map, tokens) ==
    IF tokens = <<>> THEN map
    ELSE addAllIfMissing(addToMapIfMissing(map, Head(tokens)), Tail(tokens))

\* The order localeCompare puts digits and letters in
CharOrder ==
    <<"0", "1", "2", "3", "4", "5", "6", "7", "8", "9", "a", "A", "b", "B", "c", "C",
       "d", "D", "e", "E", "f", "F", "g", "G", "h", "H", "i", "I", "j", "J", "k", "K",
       "l", "L", "m", "M", "n", "N", "o", "O", "p", "P", "q", "Q", "r", "R", "s", "S",
       "t", "T", "u", "U", "v", "V", "w", "W", "x", "X", "y", "Y", "z", "Z" >>

CharRank(char) == CHOOSE i \in 1..Len(CharOrder) : CharOrder[i] = char

\* idA.localeCompare(idB) < 0 for ids of digits and letters
IdLess(idA, idB) ==
    \E i \in 1..(Len(idA) + 1) :
        /\ i <= Len(idB)
        /\ \A j \in 1..(i - 1) : idA[j] = idB[j]
        /\ i > Len(idA) \/ CharRank(idA[i]) < CharRank(idB[i])

\* entries.sort(([idA], [idB]) => idA.localeCompare(idB)): stable
RECURSIVE sortEntries(_)
sortEntries(map) ==
    IF map = <<>> THEN <<>>
    ELSE LET least == {i \in 1..Len(map) :
                          \A j \in 1..Len(map) : ~IdLess(map[j].id, map[i].id)}
             first == CHOOSE i \in least : \A j \in least : i <= j
         IN  <<map[first]>> \o sortEntries(SubSeq(map, 1, first - 1) \o SubSeq(map, first + 1, Len(map)))

\* [...tokens].sort((a, b) => a.line - b.line): stable, by insertion
RECURSIVE insertByLine(_, _)
insertByLine(sorted, token) ==
    IF sorted = <<>> THEN <<token>>
    ELSE IF sorted[Len(sorted)].line <= token.line THEN Append(sorted, token)
    ELSE Append(insertByLine(SubSeq(sorted, 1, Len(sorted) - 1), token), sorted[Len(sorted)])

RECURSIVE sortByLine(_)
sortByLine(tokens) ==
    IF tokens = <<>> THEN <<>>
    ELSE insertByLine(sortByLine(SubSeq(tokens, 1, Len(tokens) - 1)), tokens[Len(tokens)])

Max(a, b) == IF a >= b THEN a ELSE b

\* buildDefinitionRangesByFile; endLine <<>> is Number.POSITIVE_INFINITY
buildDefinitionRangesByFile(definitions) ==
    [filePath \in {definitions[i].filePath : i \in 1..Len(definitions)} |->
        LET sorted == sortByLine(SelectSeq(definitions, LAMBDA token : token.filePath = filePath))
        IN  [i \in 1..Len(sorted) |->
                [token |-> sorted[i],
                 startLine |-> sorted[i].line,
                 endLine |-> IF i < Len(sorted)
                             THEN << Max(sorted[i].line, sorted[i + 1].line - 1) >>
                             ELSE <<>>]]]

\* findDefinitionForLine: <<>> for undefined, else <<token>>
findDefinitionForLine(rangesByFile, filePath, line) ==
    IF filePath \notin DOMAIN rangesByFile THEN <<>>
    ELSE LET ranges == rangesByFile[filePath]
             hits == {i \in 1..Len(ranges) :
                         /\ line >= ranges[i].startLine
                         /\ ranges[i].endLine = <<>> \/ line <= ranges[i].endLine[1]}
         IN  IF hits = {} THEN <<>>
             ELSE << ranges[CHOOSE i \in hits : \A j \in hits : i <= j].token >>

\* `__ref__:${filePath}:${ref.line}:${ref.offset}`, the offset undefined
syntheticId(ref) ==
    <<"__ref__", ":", ref.filePath, ":", ToString(ref.line), ":", "undefined">>

\* lines 230-237: the node a reference hangs its edge on
downstreamIdOf(ranges, ref) ==
    LET downstreamDef == findDefinitionForLine(ranges, ref.filePath, ref.line)
    IN  IF downstreamDef # <<>> THEN downstreamDef[1].id ELSE syntheticId(ref)

\* lines 238-243: layerEdges with one more edge
addEdge(layerEdges, id, downstreamId) ==
    IF id \in DOMAIN layerEdges
    THEN [layerEdges EXCEPT ![id] = @ \cup {downstreamId}]
    ELSE (id :> {downstreamId}) @@ layerEdges


\* definedUpstreamOf with the fault of keeping every definition token
definedUpstreamOfEveryToken(parsed, downstreamIndex) ==
    parsed[downstreamIndex - 1].definitions

\* referencedInDownstreamOf with the fault of keeping every reference token
referencedInDownstreamOfEveryToken(parsed, downstreamIndex) ==
    SelectSeq(parsed[downstreamIndex].references,
              LAMBDA token : matchesAny(downstreamIndex - 1, token.id))

\* lines 212-223: definedUpstream and referencedInDownstream of one boundary
definedUpstreamOf(parsed, downstreamIndex) ==
    addAllIfMissing(<<>>, parsed[downstreamIndex - 1].definitions)

referencedInDownstreamOf(parsed, downstreamIndex) ==
    addAllIfMissing(<<>>, SelectSeq(parsed[downstreamIndex].references,
                              LAMBDA token : matchesAny(downstreamIndex - 1, token.id)))

\* lines 225-245: the edges of one boundary, from referencedInDownstream.values()
RECURSIVE addEdgesOf(_, _, _, _)
addEdgesOf(layerEdges, refs, definedUpstream, ranges) ==
    IF refs = <<>> THEN layerEdges
    ELSE addEdgesOf(IF MapHas(definedUpstream, Head(refs).id)
                    THEN addEdge(layerEdges, Head(refs).id, downstreamIdOf(ranges, Head(refs)))
                    ELSE layerEdges,
                    Tail(refs), definedUpstream, ranges)

layerEdgesOf(parsed, downstreamIndex) ==
    addEdgesOf(<<>>, referencedInDownstreamOf(parsed, downstreamIndex),
               definedUpstreamOf(parsed, downstreamIndex),
               buildDefinitionRangesByFile(parsed[downstreamIndex].definitions))

\* lines 247-285: the snapshot of one boundary (what the debug log alone reads is left out)
adjacencySnapshotOf(parsed, downstreamIndex) ==
    LET definedUpstream == definedUpstreamOf(parsed, downstreamIndex)
        referencedInDownstream == referencedInDownstreamOf(parsed, downstreamIndex)
    IN  [definedUpstream |-> definedUpstream,
         referencedInDownstream |-> referencedInDownstream,
         unknownReferences |->
             sortEntries(SelectSeq(referencedInDownstream,
                                   LAMBDA token : ~MapHas(definedUpstream, token.id))),
         missingUpstream |->
             sortEntries(SelectSeq(definedUpstream,
                                   LAMBDA token : ~MapHas(referencedInDownstream, token.id)))]

\* resolveReach with the fault of never looking for the last layer
resolveReachPastEnd(edgesByLayer, memo, layerIndex, id) ==
    [memo |-> memo, terminal |-> layerIndex + 1]

\* resolveReach with the fault of stopping at the next layer
resolveReachOneStep(edgesByLayer, memo, layerIndex, id) ==
    IF /\ (layerIndex + 1) \in DOMAIN edgesByLayer
       /\ id \in DOMAIN edgesByLayer[layerIndex + 1]
    THEN [memo |-> memo, terminal |-> layerIndex + 1]
    ELSE [memo |-> memo, terminal |-> layerIndex]

\* resolveReach (lines 291-317): the memo after the call and the value returned
RECURSIVE resolveReach(_, _, _, _)
RECURSIVE resolveReachOver(_, _, _, _, _)
resolveReach(edgesByLayer, memo, layerIndex, id) ==
    LET key == <<layerIndex, id>>
        nextIndex == layerIndex + 1
        own == [memo |-> (key :> layerIndex) @@ memo, terminal |-> layerIndex]
    IN  IF key \in DOMAIN memo THEN [memo |-> memo, terminal |-> memo[key]]
        ELSE IF nextIndex \notin DOMAIN edgesByLayer THEN own
        ELSE IF id \notin DOMAIN edgesByLayer[nextIndex] THEN own
        ELSE IF edgesByLayer[nextIndex][id] = {} THEN own
        ELSE LET over == resolveReachOver(edgesByLayer, memo, nextIndex,
                                          edgesByLayer[nextIndex][id], layerIndex)
             IN  [memo |-> (key :> over.terminal) @@ over.memo, terminal |-> over.terminal]

\* lines 308-314: the loop over downstreamIds
resolveReachOver(edgesByLayer, memo, nextIndex, downstreamIds, terminal) ==
    IF downstreamIds = {} THEN [memo |-> memo, terminal |-> terminal]
    ELSE LET downstreamId == CHOOSE d \in downstreamIds : TRUE
             down == resolveReach(edgesByLayer, memo, nextIndex, downstreamId)
         IN  resolveReachOver(edgesByLayer, down.memo, nextIndex,
                              downstreamIds \ {downstreamId},
                              Max(terminal, down.terminal))

\* lines 319-324: reachById after the definitions of the layers from layerIndex on
RECURSIVE reachOfLayers(_, _, _, _, _, _)
reachOfLayers(parsed, edgesByLayer, layerIndex, tokens, reachById, memo) ==
    IF tokens = <<>>
    THEN IF layerIndex + 1 >= LayerCount THEN reachById
         ELSE reachOfLayers(parsed, edgesByLayer, layerIndex + 1,
                            parsed[layerIndex + 1].definitions, reachById, memo)
    ELSE LET reach == resolveReach(edgesByLayer, memo, layerIndex, Head(tokens).id)
         IN  reachOfLayers(parsed, edgesByLayer, layerIndex, Tail(tokens),
                 (Head(tokens).id :> [origin |-> layerIndex, terminal |-> reach.terminal])
                     @@ reachById,
                 reach.memo)

\* The elements of a sequence, as a set
Range(seq) == {seq[i] : i \in 1..Len(seq)}

\* buildTraceGraph(parsedLayers, layerRegexes, pairsToValidate)
buildTraceGraph(parsed, pairsToValidate) ==
    LET edgesByLayer == [d \in Range(pairsToValidate) |-> layerEdgesOf(parsed, d)]
    IN  [edgesByLayer |-> edgesByLayer,
         reachById |-> reachOfLayers(parsed, edgesByLayer, 0, parsed[0].definitions,
                                     <<>>, <<>>),
         adjacencyByLayer |->
             [d \in Range(pairsToValidate) |-> adjacencySnapshotOf(parsed, d)]]

\* isResolutionPathInScope
isResolutionPathInScope(allowedLayerIndices, fromIndex, toIndex) ==
    LET start == IF fromIndex <= toIndex THEN fromIndex ELSE toIndex
        end == Max(fromIndex, toIndex)
    IN  \A index \in start..end : index \in allowedLayerIndices

-----------------------------------------------------------------------------
(* validate.ts: validateTraceability                                       *)

\* allowedLayerIndices for layerIndex (<<>> when options.layer is not given)
allowedLayerIndicesOf(layerIndex) ==
    IF layerIndex = <<>> THEN LayerIndices
    ELSE {index \in {layerIndex[1] - 1, layerIndex[1]} : index >= 0}

\* pairsToValidate (lines 410-415)
pairsToValidateOf(layerIndex) ==
    IF layerIndex = <<>> THEN [i \in 1..(LayerCount - 1) |-> i]
    ELSE IF layerIndex[1] > 0 THEN << layerIndex[1] >>
    ELSE <<>>

\* createIssue: the code, the place and what the message names
createIssue(code, detail, filePath, line) ==
    [code |-> code, detail |-> detail, filePath |-> filePath, line |-> line]

\* The parser's issues, created with options.filePath
RECURSIVE issuesOfFile(_, _)
issuesOfFile(parsedIssues, filePath) ==
    IF parsedIssues = <<>> THEN <<>>
    ELSE << createIssue(Head(parsedIssues).code, Head(parsedIssues).detail, filePath,
                        Head(parsedIssues).line) >>
         \o issuesOfFile(Tail(parsedIssues), filePath)

RECURSIVE tokensOfFile(_, _)
tokensOfFile(tokens, filePath) ==
    IF tokens = <<>> THEN <<>>
    ELSE << toTokenWithSource(Head(tokens), filePath) >> \o tokensOfFile(Tail(tokens), filePath)

\* lines 474-486
RECURSIVE unknownReferenceIssues(_)
unknownReferenceIssues(unknownReferences) ==
    IF unknownReferences = <<>> THEN <<>>
    ELSE << createIssue("E030", Head(unknownReferences).id, Head(unknownReferences).filePath,
                        Head(unknownReferences).line) >>
         \o unknownReferenceIssues(Tail(unknownReferences))

\* lines 488-502
RECURSIVE missingUpstreamIssues(_)
missingUpstreamIssues(missingUpstream) ==
    IF missingUpstream = <<>> THEN <<>>
    ELSE << createIssue("E101", Head(missingUpstream).id, Head(missingUpstream).filePath,
                        Head(missingUpstream).line) >>
         \o missingUpstreamIssues(Tail(missingUpstream))

\* config.layers.findIndex((entry) => entry.name === name)
layerIndexOfName(name) ==
    LET hits == {index \in LayerIndices : LayerAt(index).name = name}
    IN  IF hits = {} THEN -1 ELSE CHOOSE index \in hits : \A other \in hits : index <= other

\* resolutionIssuesOf with the fault of comparing with <= at line 515
resolutionIssuesOfInclusive(token, layerIndexToCheck, allowedLayerIndices, graph) ==
    IF token.resolution = <<>> THEN <<>>
    ELSE LET resolutionIndex == layerIndexOfName(token.resolution)
             actualIndex == IF token.id \in DOMAIN graph.reachById
                            THEN graph.reachById[token.id].terminal
                            ELSE layerIndexToCheck
         IN  IF resolutionIndex <= layerIndexToCheck
             THEN << createIssue("E211", token.resolution, token.filePath, token.line) >>
             ELSE IF actualIndex # resolutionIndex
             THEN << createIssue("E220",
                                 [annotated |-> LayerAt(resolutionIndex).name,
                                  actual |-> LayerAt(actualIndex).name],
                                 token.filePath, token.line) >>
             ELSE <<>>

\* resolutionIssuesOf with the fault of never reporting a mismatch
resolutionIssuesOfSilent(token, layerIndexToCheck, allowedLayerIndices, graph) ==
    IF token.resolution = <<>> THEN <<>>
    ELSE IF layerIndexOfName(token.resolution) < layerIndexToCheck
    THEN << createIssue("E211", token.resolution, token.filePath, token.line) >>
    ELSE <<>>

\* resolutionIssuesOf with the fault of not looking at the scope
resolutionIssuesOfUnscoped(token, layerIndexToCheck, allowedLayerIndices, graph) ==
    IF token.resolution = <<>> THEN <<>>
    ELSE LET resolutionIndex == layerIndexOfName(token.resolution)
             actualIndex == IF token.id \in DOMAIN graph.reachById
                            THEN graph.reachById[token.id].terminal
                            ELSE layerIndexToCheck
         IN  IF resolutionIndex < layerIndexToCheck
             THEN << createIssue("E211", token.resolution, token.filePath, token.line) >>
             ELSE IF actualIndex # resolutionIndex
             THEN << createIssue("E220",
                                 [annotated |-> LayerAt(resolutionIndex).name,
                                  actual |-> LayerAt(actualIndex).name],
                                 token.filePath, token.line) >>
             ELSE <<>>

\* lines 509-551: the issues one definition adds in the resolution phase
resolutionIssuesOf(token, layerIndexToCheck, allowedLayerIndices, graph) ==
    IF token.resolution = <<>> THEN <<>>
    ELSE LET resolutionIndex == layerIndexOfName(token.resolution)
             actualIndex == IF token.id \in DOMAIN graph.reachById
                            THEN graph.reachById[token.id].terminal
                            ELSE layerIndexToCheck
         IN  IF resolutionIndex < layerIndexToCheck
             THEN << createIssue("E211", token.resolution, token.filePath, token.line) >>
             ELSE IF ~isResolutionPathInScope(allowedLayerIndices, layerIndexToCheck,
                                              resolutionIndex)
             THEN <<>>
             ELSE IF actualIndex # resolutionIndex
             THEN << createIssue("E220",
                                 [annotated |-> LayerAt(resolutionIndex).name,
                                  actual |-> LayerAt(actualIndex).name],
                                 token.filePath, token.line) >>
             ELSE <<>>

RECURSIVE resolutionIssues(_, _, _, _)
resolutionIssues(tokens, layerIndexToCheck, allowedLayerIndices, graph) ==
    IF tokens = <<>> THEN <<>>
    ELSE resolutionIssuesOf(Head(tokens), layerIndexToCheck, allowedLayerIndices, graph)
         \o resolutionIssues(Tail(tokens), layerIndexToCheck, allowedLayerIndices, graph)

-----------------------------------------------------------------------------
(* The files validateTraceability reads                                    *)

\* collection.layers[index].files, by relative path
collectionFiles == << <<"l0.md">>, <<"l1.md">>, <<"l2a.md", "l2b.md">> >>

RECURSIVE Concat(_)
Concat(chunks) == IF chunks = <<>> THEN <<>> ELSE Head(chunks) \o Concat(Tail(chunks))

Id(letter, digit) == <<letter, digit>>

Marked(id, level) == id \o resolutionSeparator \o level

Group(id) == groupingStart \o id \o groupingEnd

GroupOfTwo(idA, idB) == groupingStart \o idA \o groupingSeparator \o idB \o groupingEnd

Spaced(wordA, wordB) == wordA \o <<" ">> \o wordB

RECURSIVE JoinLines(_)
JoinLines(lines) ==
    IF lines = <<>> THEN <<>>
    ELSE IF Len(lines) = 1 THEN lines[1]
    ELSE lines[1] \o <<"\n">> \o JoinLines(Tail(lines))

\* Most lines a file of the middle layer has
MaxLines == 2

\* Files of layer 0: definitions, bare, marked, repeated
Layer0Texts ==
    { Spaced(Id("A", "1"), Id("A", "2")),
      Spaced(Marked(Id("A", "1"), Str_L0), Id("A", "2")),
      Marked(Id("A", "1"), Str_L1),
      JoinLines(<< Marked(Id("A", "1"), Str_L2), Marked(Id("A", "2"), Str_L1) >>),
      JoinLines(<< Id("A", "1"), Marked(Id("A", "1"), Str_L2) >>) }

\* Lines of the file of layer 1: definitions with the references under them,
\* a passthrough reference, two definitions on a line, a marker of the own
\* layer, of a later and of an earlier layer, a reference to an id of the
\* own layer, references no definition heads
Layer1Lines ==
    { Spaced(Id("B", "1"), Group(Id("A", "1"))),
      Spaced(Id("B", "2"), GroupOfTwo(Id("A", "1"), passthroughPrefix \o Id("A", "2"))),
      Spaced(Spaced(Marked(Id("B", "1"), Str_L1), Marked(Id("B", "2"), Str_L2)),
             Group(Id("A", "2"))),
      Spaced(Marked(Id("B", "1"), Str_L2), Group(Id("A", "1"))),
      Spaced(Marked(Id("B", "2"), Str_L0), Group(Id("B", "1"))),
      GroupOfTwo(Id("A", "1"), Id("A", "3")) }

Layer1Texts ==
    {JoinLines(lines) : lines \in UNION {[1..n -> Layer1Lines] : n \in 0..MaxLines}}

\* The two files of layer 2; one text ends in a stray grouping end
Layer2aTexts ==
    { <<>>,
      Spaced(Id("C", "1"), Group(Id("B", "1"))),
      Spaced(Id("C", "1"), GroupOfTwo(Id("B", "1"), Id("B", "3"))),
      JoinLines(<< Spaced(Marked(Id("C", "1"), Str_L2), Group(Id("B", "1"))),
                   Spaced(Id("C", "2"), Group(Id("B", "2"))) >>),
      Spaced(GroupOfTwo(passthroughPrefix \o Id("B", "1"), Id("B", "2")), groupingEnd),
      Spaced(Marked(Id("C", "1"), Str_L1), Group(Id("B", "1"))) }

Layer2bTexts == { <<>>, Group(Id("B", "2")) }

\* What decodeFileContents may return for a file
FileTexts(filePath) ==
    CASE filePath = "l0.md" -> Layer0Texts
      [] filePath = "l1.md" -> Layer1Texts
      [] filePath = "l2a.md" -> Layer2aTexts
      [] filePath = "l2b.md" -> Layer2bTexts

\* The files of the allowed layers in the order the loops at lines 368-408 read them
RECURSIVE filesToRead(_, _)
filesToRead(index, allowedLayerIndices) ==
    IF index >= LayerCount THEN <<>>
    ELSE (IF index \in allowedLayerIndices
          THEN [i \in 1..Len(collectionFiles[index + 1]) |->
                   [layer |-> index, relativePath |-> collectionFiles[index + 1][i]]]
          ELSE <<>>)
         \o filesToRead(index + 1, allowedLayerIndices)

NoParse == [returned |-> TRUE]

NoTraceGraph == <<>>

EmptyParsedLayers == [index \in LayerIndices |-> [definitions |-> <<>>, references |-> <<>>]]

\* No command line asks for an update of markers
NoWriter ==
    /\ disk = <<>>
    /\ cliOptions = <<>>
    /\ edits = <<>>
    /\ result = <<>>
    /\ runs = 0
    /\ touched = 0

allowedLayerIndices == allowedLayerIndicesOf(layerScope)

pairsToValidate == pairsToValidateOf(layerScope)

Init ==
    /\ pc = "parse"
    /\ resEnabled \in BOOLEAN
    /\ layerScope \in {<<>>} \cup {<<index>> : index \in LayerIndices}
    /\ fileText = <<>>
    /\ parsedLayers = EmptyParsedLayers
    /\ issues = <<>>
    /\ traceGraph = NoTraceGraph
    /\ cursor = 0
    /\ text = <<>>
    /\ fileLayer = 0
    /\ ps = NoParse
    /\ NoWriter

\* lines 376-407: one file is read and parsed
ParseFile ==
    /\ pc = "parse"
    /\ cursor < Len(filesToRead(0, allowedLayerIndices))
    /\ LET file == filesToRead(0, allowedLayerIndices)[cursor + 1]
       IN  \E content \in FileTexts(file.relativePath) :
               LET parsed == parseLayerFile(ParserOptions(content, file.layer, resEnabled))
               IN  /\ fileText' = (file.relativePath :> content) @@ fileText
                   /\ issues' = issues \o issuesOfFile(parsed.issues, file.relativePath)
                   /\ parsedLayers' =
                          [parsedLayers EXCEPT
                              ![file.layer].definitions =
                                  @ \o tokensOfFile(parsed.definitions, file.relativePath),
                              ![file.layer].references =
                                  @ \o tokensOfFile(parsed.references, file.relativePath)]
    /\ cursor' = cursor + 1
    /\ UNCHANGED <<pc, resEnabled, layerScope, traceGraph, parserVars, writerVars>>

\* line 417: every file is read, the trace graph is built
BuildTraceGraph ==
    /\ pc = "parse"
    /\ cursor = Len(filesToRead(0, allowedLayerIndices))
    /\ traceGraph' = buildTraceGraph(parsedLayers, pairsToValidate)
    /\ pc' = IF pairsToValidate = <<>> THEN "resolution" ELSE "adjacency"
    /\ cursor' = 0
    /\ UNCHANGED <<resEnabled, layerScope, fileText, parsedLayers, issues, parserVars, writerVars>>

\* ValidateAdjacency with the fault of putting its issues before the others
ValidateAdjacencyPrepending ==
    /\ pc = "adjacency"
    /\ cursor < Len(pairsToValidate)
    /\ LET downstreamIndex == pairsToValidate[cursor + 1]
           snapshot == traceGraph.adjacencyByLayer[downstreamIndex]
       IN  issues' =
               IF /\ downstreamIndex \in allowedLayerIndices
                  /\ (downstreamIndex - 1) \in allowedLayerIndices
               THEN unknownReferenceIssues(snapshot.unknownReferences)
                    \o (IF ~resEnabled
                        THEN missingUpstreamIssues(snapshot.missingUpstream)
                        ELSE <<>>)
                    \o issues
               ELSE issues
    /\ pc' = IF cursor + 1 = Len(pairsToValidate) THEN "resolution" ELSE pc
    /\ cursor' = IF cursor + 1 = Len(pairsToValidate) THEN 0 ELSE cursor + 1
    /\ UNCHANGED <<resEnabled, layerScope, fileText, parsedLayers, traceGraph, parserVars, writerVars>>

\* lines 419-503: one boundary of pairsToValidate
ValidateAdjacency ==
    /\ pc = "adjacency"
    /\ cursor < Len(pairsToValidate)
    /\ LET downstreamIndex == pairsToValidate[cursor + 1]
           snapshot == traceGraph.adjacencyByLayer[downstreamIndex]
       IN  issues' =
               IF /\ downstreamIndex \in allowedLayerIndices
                  /\ (downstreamIndex - 1) \in allowedLayerIndices
               THEN issues \o unknownReferenceIssues(snapshot.unknownReferences)
                           \o (IF ~resEnabled
                               THEN missingUpstreamIssues(snapshot.missingUpstream)
                               ELSE <<>>)
               ELSE issues
    /\ pc' = IF cursor + 1 = Len(pairsToValidate) THEN "resolution" ELSE pc
    /\ cursor' = IF cursor + 1 = Len(pairsToValidate) THEN 0 ELSE cursor + 1
    /\ UNCHANGED <<resEnabled, layerScope, fileText, parsedLayers, traceGraph, parserVars, writerVars>>

\* lines 505-554: the definitions of one layer
ValidateResolution ==
    /\ pc = "resolution"
    /\ resEnabled
    /\ cursor < LayerCount
    /\ issues' = issues \o resolutionIssues(parsedLayers[cursor].definitions, cursor,
                                            allowedLayerIndices, traceGraph)
    /\ cursor' = cursor + 1
    /\ UNCHANGED <<pc, resEnabled, layerScope, fileText, parsedLayers, traceGraph, parserVars, writerVars>>

\* lines 556-562
Return ==
    /\ pc = "resolution"
    /\ ~resEnabled \/ cursor = LayerCount
    /\ pc' = "done"
    /\ UNCHANGED <<resEnabled, validateVars, parserVars, writerVars>>

Next ==
    \/ ParseFile
    \/ BuildTraceGraph
    \/ ValidateAdjacency
    \/ ValidateResolution
    \/ Return

Spec == Init /\ [][Next]_vars

-----------------------------------------------------------------------------
(* Properties of the validation                                            *)

Done == pc = "done"

CountIssues(Test(_)) == Len(SelectSeq(issues, Test))

Definitions(layerIndex) == parsedLayers[layerIndex].definitions

References(layerIndex) == parsedLayers[layerIndex].references

DefinedIn(layerIndex, id) ==
    \E i \in 1..Len(Definitions(layerIndex)) : Definitions(layerIndex)[i].id = id

ReferencedIn(layerIndex, id) ==
    \E i \in 1..Len(References(layerIndex)) : References(layerIndex)[i].id = id

\* The boundaries (k-1, k) the run validates, named by k
ValidatedBoundaries ==
    IF layerScope = <<>> THEN 1..(LayerCount - 1)
    ELSE {layerScope[1]} \ {0}

\* Every id a token or an adjacency issue names
KnownIds ==
    UNION {MapKeys(Definitions(k)) \cup MapKeys(References(k)) : k \in LayerIndices}
    \cup {issues[i].detail : i \in {j \in 1..Len(issues) : issues[j].code \in {"E030", "E101"}}}

\* C1: at the end of a run, for every validated boundary (k-1, k) and every
\* id X of layer k-1's patterns, the number of E030 issues naming X is 1 when
\* a reference token of layer k has id X and layer k-1 does not define X, and
\* 0 otherwise; with resolution enabled and disabled alike. No E030 names an
\* id of a boundary that is not validated.
C1_UnknownUpstreamReference ==
    Done =>
        \A X \in KnownIds :
            CountIssues(LAMBDA issue : issue.code = "E030" /\ issue.detail = X)
            = IF \E k \in ValidatedBoundaries :
                     /\ matchesAny(k - 1, X)
                     /\ ReferencedIn(k, X)
                     /\ ~DefinedIn(k - 1, X)
              THEN 1 ELSE 0

\* C1 witness: with resolution enabled both boundaries have reported an
\* unknown reference, one of them referenced by two tokens.
C1_Witness ==
    /\ Done
    /\ resEnabled
    /\ \E i, j \in 1..Len(issues) :
          /\ issues[i].code = "E030" /\ matchesAny(0, issues[i].detail)
          /\ issues[j].code = "E030" /\ matchesAny(1, issues[j].detail)
          /\ Len(SelectSeq(References(1), LAMBDA token : token.id = issues[i].detail)) >= 2

\* C2: at the end of a run, for every id X, the number of E101 issues naming
\* X is 1 when resolution is disabled and some validated boundary (k-1, k)
\* has X defined in layer k-1 and no reference token of layer k with id X,
\* and 0 otherwise: never more than one, never with resolution enabled.
C2_UnmappedUpstreamId ==
    Done =>
        \A X \in KnownIds :
            CountIssues(LAMBDA issue : issue.code = "E101" /\ issue.detail = X)
            = IF /\ ~resEnabled
                 /\ \E k \in ValidatedBoundaries :
                       DefinedIn(k - 1, X) /\ ~ReferencedIn(k, X)
              THEN 1 ELSE 0

\* C2 witness: with resolution disabled an id defined twice has got its
\* E101, and an id referenced through the passthrough prefix alone has none.
C2_Witness ==
    /\ Done
    /\ ~resEnabled
    /\ \E i \in 1..Len(issues) :
          /\ issues[i].code = "E101"
          /\ Len(SelectSeq(Definitions(0), LAMBDA token : token.id = issues[i].detail)) >= 2
    /\ \E k \in ValidatedBoundaries : \E X \in MapKeys(Definitions(k - 1)) :
          /\ \A i \in 1..Len(References(k)) :
                References(k)[i].id = X => References(k)[i].raw = passthroughPrefix \o X
          /\ ReferencedIn(k, X)
          /\ \A i \in 1..Len(issues) : ~(issues[i].code = "E101" /\ issues[i].detail = X)

\* reach(L, n) read off the edges of the trace graph: L when n has no target
\* at the boundary into L+1, else the greatest reach(L+1, t) over its targets
Targets(layerIndex, id) ==
    IF layerIndex \notin DOMAIN traceGraph.edgesByLayer THEN {}
    ELSE IF id \notin DOMAIN traceGraph.edgesByLayer[layerIndex] THEN {}
    ELSE traceGraph.edgesByLayer[layerIndex][id]

Maximum(numbers) == CHOOSE n \in numbers : \A m \in numbers : m <= n

RECURSIVE Reach(_, _)
Reach(layerIndex, id) ==
    IF Targets(layerIndex + 1, id) = {} THEN layerIndex
    ELSE Maximum({Reach(layerIndex + 1, target) : target \in Targets(layerIndex + 1, id)})

GraphBuilt == pc # "parse"

\* C3: once the graph is built, every definition id of a layer L has a reach
\* record, with origin L and with terminal reach(L, id).
C3_TerminalIsReach ==
    GraphBuilt =>
        \A L \in LayerIndices : \A i \in 1..Len(Definitions(L)) :
            LET id == Definitions(L)[i].id
            IN  /\ id \in DOMAIN traceGraph.reachById
                /\ traceGraph.reachById[id].origin = L
                /\ traceGraph.reachById[id].terminal = Reach(L, id)

\* C3 witness: the chain A -> B -> C over three layers, A's terminal is 2
C3_Witness ==
    /\ Done
    /\ \E A \in MapKeys(Definitions(0)) : \E B \in MapKeys(Definitions(1)) :
          /\ B \in Targets(1, A)
          /\ Targets(2, B) \cap MapKeys(Definitions(2)) # {}
          /\ traceGraph.reachById[A] = [origin |-> 0, terminal |-> LayerCount - 1]

\* C4: every reach record has 0 <= origin <= terminal < layerCount, whatever
\* was parsed and whatever the --layer scope.
C4_ReachBounds ==
    GraphBuilt =>
        \A id \in DOMAIN traceGraph.reachById :
            /\ 0 <= traceGraph.reachById[id].origin
            /\ traceGraph.reachById[id].origin <= traceGraph.reachById[id].terminal
            /\ traceGraph.reachById[id].terminal < LayerCount

\* C4 witness: a scoped run has recorded a reach that ends in the last layer
\* beside one that ends where it starts
C4_Witness ==
    /\ layerScope # <<>>
    /\ GraphBuilt
    /\ \E id, other \in DOMAIN traceGraph.reachById :
          /\ traceGraph.reachById[id].origin < traceGraph.reachById[id].terminal
          /\ traceGraph.reachById[id].terminal = LayerCount - 1
          /\ traceGraph.reachById[other].origin = traceGraph.reachById[other].terminal

\* The definition tokens of a layer that share a token's file, line and marker
SamePlace(layerIndex, token) ==
    {i \in 1..Len(Definitions(layerIndex)) :
        /\ Definitions(layerIndex)[i].filePath = token.filePath
        /\ Definitions(layerIndex)[i].line = token.line
        /\ Definitions(layerIndex)[i].resolution = token.resolution}

\* Every layer from the definition's to the annotated one is in scope
InScope(layerIndex, resolutionIndex) ==
    \A index \in LayerIndices :
        (layerIndex <= index /\ index <= resolutionIndex) => index \in allowedLayerIndices

\* The E220 issues at a token's place that name its annotated layer
MismatchIssues(token) ==
    SelectSeq(issues, LAMBDA issue :
        /\ issue.code = "E220"
        /\ issue.filePath = token.filePath
        /\ issue.line = token.line
        /\ issue.detail.annotated = token.resolution)

\* The E211 issues at a token's place that name its marker
OutOfOrderIssues(token) ==
    SelectSeq(issues, LAMBDA issue :
        /\ issue.code = "E211"
        /\ issue.filePath = token.filePath
        /\ issue.line = token.line
        /\ issue.detail = token.resolution)

\* C5: at the end of a run with resolution enabled, for a definition of layer
\* D annotated with a later layer R, in scope: the E220 issues at its place
\* that name R are as many as the definitions at that place annotated R
\* whose reach does not end at R, one for each and none for the others, and
\* each names the layer the reach of one of them ends at.
C5_MismatchedResolution ==
    (Done /\ resEnabled) =>
        \A D \in LayerIndices : \A i \in 1..Len(Definitions(D)) :
            LET token == Definitions(D)[i]
                R == layerIndexOfName(token.resolution)
                mismatched == {j \in SamePlace(D, token) : Reach(D, Definitions(D)[j].id) # R}
            IN  (token.resolution # <<>> /\ R > D /\ InScope(D, R)) =>
                    /\ Len(MismatchIssues(token)) = Cardinality(mismatched)
                    /\ \A n \in 1..Len(MismatchIssues(token)) : \E j \in mismatched :
                          MismatchIssues(token)[n].detail.actual
                          = LayerAt(Reach(D, Definitions(D)[j].id)).name
                    /\ \A j \in mismatched : \E n \in 1..Len(MismatchIssues(token)) :
                          MismatchIssues(token)[n].detail.actual
                          = LayerAt(Reach(D, Definitions(D)[j].id)).name

\* C5 witness: one definition annotated with a later layer has its E220, the
\* trace ending before the annotated layer, and another, whose trace ends at
\* the annotated layer, has none.
C5_Witness ==
    /\ Done
    /\ resEnabled
    /\ \E D, E \in LayerIndices :
       \E i \in 1..Len(Definitions(D)) : \E j \in 1..Len(Definitions(E)) :
          /\ layerIndexOfName(Definitions(D)[i].resolution) > Reach(D, Definitions(D)[i].id)
          /\ Len(MismatchIssues(Definitions(D)[i])) = 1
          /\ layerIndexOfName(Definitions(E)[j].resolution) > E
          /\ layerIndexOfName(Definitions(E)[j].resolution) = Reach(E, Definitions(E)[j].id)
          /\ Len(MismatchIssues(Definitions(E)[j])) = 0

-----------------------------------------------------------------------------
(* The parser as a state machine: one action per branch of the scan loop   *)

\* Longest text, in lexical chunks, handed to the parser
MaxChunks == 4

\* The layers whose files are parsed on their own: one with an upstream layer
ParseLayers == {1}

\* The lexical chunks texts are built from: an id of the file's own layer, an
\* id of the layer before it, a line break, the grouping delimiters and
\* separator, the passthrough prefix, the marker separator and a quote.
Chunks(layerIndex) ==
    { <<LayerAt(layerIndex).letter, "1">>, <<LayerAt(layerIndex - 1).letter, "1">>,
      <<"\n">>, groupingStart, groupingEnd, groupingSeparator,
      passthroughPrefix, resolutionSeparator, <<"'">> }

Texts(layerIndex) ==
    {Concat(chunks) : chunks \in UNION {[1..n -> Chunks(layerIndex)] : n \in 0..MaxChunks}}

parserOptions == ParserOptions(text, fileLayer, resEnabled)

ParseInit ==
    /\ pc = "parse"
    /\ resEnabled \in BOOLEAN
    /\ fileLayer \in ParseLayers
    /\ text \in Texts(fileLayer)
    /\ ps = InitialParse
    /\ layerScope = <<>>
    /\ fileText = <<>>
    /\ parsedLayers = EmptyParsedLayers
    /\ issues = <<>>
    /\ traceGraph = NoTraceGraph
    /\ cursor = 0
    /\ NoWriter

\* the end delimiter closes the open grouping
GroupingClose ==
    /\ pc = "parse"
    /\ Branch(ps, parserOptions) = "groupingClose"
    /\ ps' = groupingClose(ps, parserOptions)
    /\ UNCHANGED <<pc, resEnabled, text, fileLayer, validateVars, writerVars>>

\* any other character inside a grouping
GroupingAccumulate ==
    /\ pc = "parse"
    /\ Branch(ps, parserOptions) = "groupingAccumulate"
    /\ ps' = groupingAccumulate(ps, parserOptions)
    /\ UNCHANGED <<pc, resEnabled, text, fileLayer, validateVars, writerVars>>

\* the start delimiter outside a grouping
GroupingOpen ==
    /\ pc = "parse"
    /\ Branch(ps, parserOptions) = "groupingOpen"
    /\ ps' = groupingOpen(ps, parserOptions)
    /\ UNCHANGED <<pc, resEnabled, text, fileLayer, validateVars, writerVars>>

\* the end delimiter outside a grouping
StrayGroupingEnd ==
    /\ pc = "parse"
    /\ Branch(ps, parserOptions) = "strayGroupingEnd"
    /\ ps' = strayGroupingEnd(ps, parserOptions)
    /\ UNCHANGED <<pc, resEnabled, text, fileLayer, validateVars, writerVars>>

\* the separator outside a grouping
SeparatorFlush ==
    /\ pc = "parse"
    /\ Branch(ps, parserOptions) = "separator"
    /\ ps' = separatorFlush(ps, parserOptions)
    /\ UNCHANGED <<pc, resEnabled, text, fileLayer, validateVars, writerVars>>

\* the marker separator right after a token
ResolutionMarker ==
    /\ pc = "parse"
    /\ Branch(ps, parserOptions) = "resolutionMarker"
    /\ ps' = resolutionMarker(ps, parserOptions)
    /\ UNCHANGED <<pc, resEnabled, text, fileLayer, validateVars, writerVars>>

\* whitespace or a character no token may hold
FlushChar ==
    /\ pc = "parse"
    /\ Branch(ps, parserOptions) = "flushChar"
    /\ ps' = flushChar(ps, parserOptions)
    /\ UNCHANGED <<pc, resEnabled, text, fileLayer, validateVars, writerVars>>

\* a token character
Accumulate ==
    /\ pc = "parse"
    /\ Branch(ps, parserOptions) = "accumulate"
    /\ ps' = accumulate(ps, parserOptions)
    /\ UNCHANGED <<pc, resEnabled, text, fileLayer, validateVars, writerVars>>

\* the scan loop has ended
EndOfInput ==
    /\ pc = "parse"
    /\ Branch(ps, parserOptions) = "endOfInput"
    /\ ps' = endOfInput(ps, parserOptions)
    /\ UNCHANGED <<pc, resEnabled, text, fileLayer, validateVars, writerVars>>

ParseNext ==
    \/ GroupingClose
    \/ GroupingAccumulate
    \/ GroupingOpen
    \/ StrayGroupingEnd
    \/ SeparatorFlush
    \/ ResolutionMarker
    \/ FlushChar
    \/ Accumulate
    \/ EndOfInput

SpecParse == ParseInit /\ [][ParseNext]_vars

-----------------------------------------------------------------------------
(* Properties of the parser                                                *)

\* The line of the character at a 0-based index of the text
LineOf(index) == 1 + Cardinality({i \in 1..index : text[i] = "\n"})

\* What one step adds to the output
addedDefinitions ==
    SubSeq(ps'.output.definitions, Len(ps.output.definitions) + 1, Len(ps'.output.definitions))

addedReferences ==
    SubSeq(ps'.output.references, Len(ps.output.references) + 1, Len(ps'.output.references))

addedIssues ==
    SubSeq(ps'.output.issues, Len(ps.output.issues) + 1, Len(ps'.output.issues))

\* The pieces of a grouping's content, read off the content itself: the
\* maximal stretches <<a, b>> (1-based, empty when b = a - 1) that hold no
\* separator and are bounded by separators or by the ends of the content.
PieceSpans(content) ==
    LET n == Len(content)
        sep == groupingSeparator
    IN  {span \in (1..(n + 1)) \X (0..n) :
            /\ span[1] <= span[2] + 1
            /\ \/ span[1] = 1
               \/ /\ span[1] > Len(sep)
                  /\ StartsWith(content, sep, span[1] - 1 - Len(sep))
            /\ \/ span[2] = n
               \/ StartsWith(content, sep, span[2])
            /\ \A k \in (span[1] - 1)..(span[2] - 1) : ~StartsWith(content, sep, k)}

Piece(content, span) == Trim(SubSeq(content, span[1], span[2]))

IsLayerOrUpstreamId(value) ==
    /\ GLOBAL_ID_REGEX(value)
    /\ matchesAny(fileLayer, value) \/ matchesAny(fileLayer - 1, value)

\* The scan stands inside a grouping, on a character
InsideGrouping == ps.inGrouping /\ ~ps.returned /\ ps.index < Len(text)

AtGroupingEnd == StartsWith(text, groupingEnd, ps.index)

\* Where the open grouping's start delimiter stands (0-based)
groupingStartIndex == ps.index - Len(ps.groupingBuffer) - Len(groupingStart)

\* C7: an id between a quote character and the next matching quote character,
\* outside any grouping, that matches the file's own layer patterns is
\* recorded as a reference and is not recorded as a definition.
Quotes == {"'", "\""}

QuotedOwnIds ==
    {q \in (1..Len(text)) \X (1..Len(text)) :
        /\ q[1] < q[2]
        /\ text[q[1]] \in Quotes
        /\ text[q[2]] = text[q[1]]
        /\ matchesAny(fileLayer, SubSeq(text, q[1] + 1, q[2] - 1))
        /\ \A k \in 1..(q[1] - 1) :
              text[k] \notin Quotes /\ ~StartsWith(text, groupingStart, k - 1)}

Occurrences(id) == {k \in 0..Len(text) : StartsWith(text, id, k)}

C7_QuotedIdIsReference ==
    ps.returned =>
        \A q \in QuotedOwnIds :
            LET id == SubSeq(text, q[1] + 1, q[2] - 1)
            IN  /\ \E k \in 1..Len(ps.output.references) :
                      /\ ps.output.references[k].id = id
                      /\ ps.output.references[k].line = LineOf(q[1])
                /\ Cardinality(Occurrences(id)) = 1 =>
                      \A k \in 1..Len(ps.output.definitions) :
                          ps.output.definitions[k].id # id

\* C8: a grouping spans from its start delimiter to the first end delimiter
\* after it: the buffer is the text since the start delimiter and holds no
\* end delimiter, a start delimiter inside it changes nothing, and the first
\* end delimiter closes it. No step inside a grouping records a definition,
\* and every piece that is an id of the own or the upstream layer is recorded
\* as a reference when the grouping closes.
C8_Step ==
    InsideGrouping =>
        /\ groupingStartIndex >= 0
        /\ StartsWith(text, groupingStart, groupingStartIndex)
        /\ ps.groupingBuffer = Slice(text, groupingStartIndex + Len(groupingStart), ps.index)
        /\ \A k \in (groupingStartIndex + Len(groupingStart))..(ps.index - 1) :
              ~StartsWith(text, groupingEnd, k)
        /\ addedDefinitions = <<>>
        /\ Len(ps'.output.definitions) = Len(ps.output.definitions)
        /\ IF AtGroupingEnd
           THEN /\ ~ps'.inGrouping
                /\ \A span \in PieceSpans(ps.groupingBuffer) :
                      IsLayerOrUpstreamId(Piece(ps.groupingBuffer, span)) =>
                          \E k \in 1..Len(addedReferences) :
                              addedReferences[k].id = Piece(ps.groupingBuffer, span)
           ELSE /\ ps'.inGrouping
                /\ ps'.groupingStartLine = ps.groupingStartLine
                /\ ps'.output = ps.output

C8_GroupingIdsAreReferences == [][C8_Step]_vars

\* C8 witness: a grouping opened on line 1 has closed on a later line and
\* left an id of the file's own layer as a reference, and nothing is defined.
C8_Witness ==
    /\ StartsWith(text, groupingStart, 0)
    /\ ~ps.inGrouping
    /\ ps.output.definitions = <<>>
    /\ \E k \in 1..Len(ps.output.references) :
          /\ matchesAny(fileLayer, ps.output.references[k].id)
          /\ ps.output.references[k].line > 1

\* C9: when a grouping closes, a piece <passthroughPrefix><ID> with ID an id
\* of the own or the upstream layer adds a reference whose id is ID, and the
\* pieces that are the bare prefix add one E020 each and no reference.
C9_Step ==
    (InsideGrouping /\ AtGroupingEnd) =>
        \A span \in PieceSpans(ps.groupingBuffer) :
            LET piece == Piece(ps.groupingBuffer, span)
                remainder == SliceFrom(piece, Len(passthroughPrefix))
            IN  StartsWith(piece, passthroughPrefix, 0) =>
                    IF remainder = <<>>
                    THEN /\ Len(SelectSeq(addedIssues,
                                LAMBDA issue : issue.code = "E020" /\ issue.detail = piece))
                            = Cardinality({other \in PieceSpans(ps.groupingBuffer) :
                                              Piece(ps.groupingBuffer, other) = piece})
                         /\ \A k \in 1..Len(addedReferences) : addedReferences[k].raw # piece
                    ELSE IsLayerOrUpstreamId(remainder) =>
                             \E k \in 1..Len(addedReferences) :
                                 /\ addedReferences[k].id = remainder
                                 /\ addedReferences[k].raw = piece

C9_PassthroughIsReference == [][C9_Step]_vars

\* C9 witness: a reference recorded from a piece that carries the prefix
C9_Witness ==
    \E k \in 1..Len(ps.output.references) :
        /\ ps.output.references[k].raw = passthroughPrefix \o ps.output.references[k].id
        /\ matchesAny(fileLayer - 1, ps.output.references[k].id)

\* C10: a step adds E010 in three situations and in no other: the input ends
\* inside a grouping (one, at the line of its start delimiter), a grouping
\* closes with every piece empty (one, at the line of its start delimiter),
\* an end delimiter stands outside a grouping (one, at the current line, and
\* the scan goes on behind the delimiter).
AllPiecesEmpty(content) ==
    \A span \in PieceSpans(content) : Piece(content, span) = <<>>

E010At(line) == << Issue("E010", line, <<>>) >>

C10_Step ==
    ~ps.returned =>
        LET added == SelectSeq(addedIssues, LAMBDA issue : issue.code = "E010")
        IN  IF ps.index >= Len(text)
            THEN /\ ps'.returned
                 /\ added = IF ps.inGrouping THEN E010At(LineOf(groupingStartIndex)) ELSE <<>>
            ELSE IF ps.inGrouping
            THEN added = IF AtGroupingEnd /\ AllPiecesEmpty(ps.groupingBuffer)
                         THEN E010At(LineOf(groupingStartIndex)) ELSE <<>>
            ELSE IF AtGroupingEnd
            THEN /\ added = E010At(LineOf(ps.index))
                 /\ ~ps'.returned
                 /\ ps'.index = ps.index + Len(groupingEnd)
            ELSE added = <<>>

C10_MalformedGrouping == [][C10_Step]_vars

\* C10 witness: one parse has met all three situations
C10_Witness ==
    /\ ps.returned
    /\ Len(SelectSeq(ps.output.issues, LAMBDA issue : issue.code = "E010")) >= 3

-----------------------------------------------------------------------------
(* The parser on texts that carry resolution markers                       *)

\* Most words of a text
MaxWords == 2

\* A level that is no layer name, no alias and no inherited member
Str_Zz == <<"Z", "z">>

\* A word that matches no id pattern
Str_prose == <<"x">>

\* The alias of the configuration
Str_M1 == <<"M", "1">>

\* The words texts are built from, for a file of the given layer: the own id
\* bare and marked with a layer name, an alias, an unknown level, an inherited
\* member's name and no level at all; the upstream id and a prose word with
\* a marker; groupings whose pieces carry markers; the grouping separator,
\* a stray end delimiter and a line break.
MarkerWords(layerIndex) ==
    LET own == Id(LayerAt(layerIndex).letter, "1")
        upstream == Id(LayerAt(layerIndex - 1).letter, "1")
    IN  { own,
          Marked(own, Str_L2), Marked(own, Str_M1), Marked(own, Str_Zz),
          Marked(own, Str_valueOf), Marked(own, <<>>),
          Marked(upstream, Str_L1), Marked(upstream, Str_Zz),
          Marked(Str_prose, Str_Zz),
          Group(Marked(own, Str_L2)), Group(Marked(own, Str_Zz)),
          GroupOfTwo(Marked(upstream, Str_M1), passthroughPrefix \o Marked(upstream, Str_Zz)),
          groupingSeparator, groupingEnd, <<"\n">> }

\* Words joined by single spaces
RECURSIVE JoinWords(_)
JoinWords(words) ==
    IF words = <<>> THEN <<>>
    ELSE IF Len(words) = 1 THEN words[1]
    ELSE words[1] \o <<" ">> \o JoinWords(Tail(words))

MarkerTexts(layerIndex) ==
    {JoinWords(words) :
        words \in UNION {[1..n -> MarkerWords(layerIndex)] : n \in 0..MaxWords}}

MarkerInit ==
    /\ pc = "parse"
    /\ resEnabled \in BOOLEAN
    /\ fileLayer \in ParseLayers
    /\ text \in MarkerTexts(fileLayer)
    /\ ps = InitialParse
    /\ layerScope = <<>>
    /\ fileText = <<>>
    /\ parsedLayers = EmptyParsedLayers
    /\ issues = <<>>
    /\ traceGraph = NoTraceGraph
    /\ cursor = 0
    /\ NoWriter

SpecMarker == MarkerInit /\ [][ParseNext]_vars

\* How many of the issues a step adds carry the code
addedWithCode(code) == Len(SelectSeq(addedIssues, LAMBDA issue : issue.code = code))

\* A grouping piece, its passthrough prefix taken off
normalizedPiece(piece) ==
    IF StartsWith(piece, passthroughPrefix, 0) THEN SliceFrom(piece, Len(passthroughPrefix))
    ELSE piece

\* The value holds a marker separator behind a well-formed id
CarriesMarker(value) ==
    \E k \in 1..Len(value) :
        /\ StartsWith(value, resolutionSeparator, k)
        /\ GLOBAL_ID_REGEX(SubSeq(value, 1, k))

\* C11: no token gets both E111 and E110. The step that handles tokens in a
\* grouping adds one E111 for each piece that carries a marker and never an
\* E110, whatever stands behind the separator; a step that adds an E110
\* (a token outside any grouping) adds no E111.
C11_Step ==
    /\ addedWithCode("E111") > 0 => addedWithCode("E110") = 0
    /\ (InsideGrouping /\ AtGroupingEnd /\ resEnabled) =>
          /\ addedWithCode("E110") = 0
          /\ addedWithCode("E111") =
                Cardinality({span \in PieceSpans(ps.groupingBuffer) :
                    LET piece == Piece(ps.groupingBuffer, span)
                    IN  /\ normalizedPiece(piece) # <<>>
                        /\ CarriesMarker(normalizedPiece(piece))})

C11_E111SuppressesE110 == [][C11_Step]_vars

\* C11 witness: a grouping piece marked with an unknown level has been
\* handled; E111 is reported and E110 is not.
C11_Witness ==
    /\ ps.returned
    /\ Occurrences(Group(Marked(Id(LayerAt(fileLayer).letter, "1"), Str_Zz))) # {}
    /\ \E k \in 1..Len(ps.output.issues) : ps.output.issues[k].code = "E111"
    /\ \A k \in 1..Len(ps.output.issues) : ps.output.issues[k].code # "E110"

\* The level behind a marker separator at the 0-based index: the longest
\* stretch of token characters that follows it
LevelBehind(index) ==
    LET from == index + Len(resolutionSeparator)
        ends == {e \in from..Len(text) : \A i \in (from + 1)..e : isAllowedTokenChar(text[i])}
    IN  Slice(text, from, Maximum(ends))

\* The scan stands on a marker separator right behind an id of the file's layer
AtMarkedDefinition ==
    /\ ~ps.returned
    /\ resEnabled
    /\ ~ps.inGrouping
    /\ StartsWith(text, resolutionSeparator, ps.index)
    /\ matchesAny(fileLayer, ps.tokenBuffer)

\* C12: with resolution enabled, an own-layer id followed by the separator
\* and a level that is neither a layer name nor an alias adds exactly one
\* E110 and is recorded as a definition without resolution; when the level
\* is a layer name or an alias, the definition carries the canonical layer
\* name and no E110 is added.
C12_Step ==
    AtMarkedDefinition =>
        LET level == LevelBehind(ps.index)
            canonical == IF level \in layerNames THEN level
                         ELSE IF level \in DOMAIN aliasToName THEN aliasToName[level]
                         ELSE <<>>
        IN  /\ addedDefinitions =
                  << Token(ps.tokenBuffer, ps.tokenBuffer, ps.tokenLine, canonical) >>
            /\ addedWithCode("E110") = IF canonical = <<>> THEN 1 ELSE 0

C12_UnknownLevelKeepsDefinition == [][C12_Step]_vars

-----------------------------------------------------------------------------
(* Token ranges. validate.ts and resolution-writer.ts read token.offset    *)
(* and token.length, which the parser of this snapshot does not produce;   *)
(* they are taken from the specification: the offset of the token's first  *)
(* character and a length that covers the id and any marker behind it.     *)

\* The range of the token one step of the scan loop flushes, if the step
\* records it as a definition
rangeOfStep(st, next, options) ==
    IF Len(next.output.definitions) > Len(st.output.definitions)
    THEN << [offset |-> st.index - Len(st.tokenBuffer),
             length |-> IF Branch(st, options) = "resolutionMarker"
                        THEN next.index - st.index + Len(st.tokenBuffer)
                        ELSE Len(st.tokenBuffer)] >>
    ELSE <<>>

\* The output with every definition carrying its range
withRanges(output, ranges) ==
    [output EXCEPT !.definitions =
        [k \in 1..Len(output.definitions) |-> output.definitions[k] @@ ranges[k]]]

\* parseRun, collecting the ranges of the definitions step by step
RECURSIVE parseRunWithRanges(_, _, _)
rangedStep(st, next, options, ranges) ==
    parseRunWithRanges(next, options, ranges \o rangeOfStep(st, next, options))

parseRunWithRanges(st, options, ranges) ==
    IF st.returned THEN withRanges(st.output, ranges)
    ELSE rangedStep(st, parseStep(st, options), options, ranges)

\* parseLayerFile with every definition carrying its range
parseLayerFileWithRanges(options) == parseRunWithRanges(InitialParse, options, <<>>)

-----------------------------------------------------------------------------
(* validate.ts: validateTraceability as one function of the files           *)

\* lines 395-407: what one parsed file adds to issues and parsedLayers
addParsedFile(acc, file, parsed) ==
    [issues |-> acc.issues \o issuesOfFile(parsed.issues, file.relativePath),
     parsedLayers |->
         [acc.parsedLayers EXCEPT
             ![file.layer].definitions =
                 @ \o tokensOfFile(parsed.definitions, file.relativePath),
             ![file.layer].references =
                 @ \o tokensOfFile(parsed.references, file.relativePath)]]

\* lines 368-408
RECURSIVE parseFiles(_, _, _, _)
parseFiles(files, readFile, enabled, acc) ==
    IF files = <<>> THEN acc
    ELSE parseFiles(Tail(files), readFile, enabled,
             addParsedFile(acc, Head(files),
                 parseLayerFileWithRanges(
                     ParserOptions(readFile[Head(files).relativePath], Head(files).layer,
                                   enabled))))

\* lines 419-503
RECURSIVE adjacencyIssues(_, _, _, _)
adjacencyIssues(pairs, allowed, enabled, graph) ==
    IF pairs = <<>> THEN <<>>
    ELSE LET downstreamIndex == Head(pairs)
             snapshot == graph.adjacencyByLayer[downstreamIndex]
         IN  (IF downstreamIndex \in allowed /\ (downstreamIndex - 1) \in allowed
              THEN unknownReferenceIssues(snapshot.unknownReferences)
                   \o (IF ~enabled THEN missingUpstreamIssues(snapshot.missingUpstream)
                       ELSE <<>>)
              ELSE <<>>)
             \o adjacencyIssues(Tail(pairs), allowed, enabled, graph)

\* lines 505-554
RECURSIVE resolutionIssuesFrom(_, _, _, _)
resolutionIssuesFrom(layerIndexToCheck, parsed, allowed, graph) ==
    IF layerIndexToCheck >= LayerCount THEN <<>>
    ELSE resolutionIssues(parsed[layerIndexToCheck].definitions, layerIndexToCheck,
                          allowed, graph)
         \o resolutionIssuesFrom(layerIndexToCheck + 1, parsed, allowed, graph)

\* lines 417-562: the graph is built, both phases add their issues
analysisOfGraph(read, graph, allowed, pairs, enabled) ==
    [issues |-> read.issues
                \o adjacencyIssues(pairs, allowed, enabled, graph)
                \o (IF enabled
                    THEN resolutionIssuesFrom(0, read.parsedLayers, allowed, graph)
                    ELSE <<>>),
     parsedLayers |-> read.parsedLayers,
     traceGraph |-> graph]

analysisOfParsed(read, allowed, pairs, enabled) ==
    analysisOfGraph(read, buildTraceGraph(read.parsedLayers, pairs), allowed, pairs, enabled)

\* validateTraceability: {issues, parsedLayers, traceGraph}
validateTraceability(readFile, layerIndex, enabled) ==
    analysisOfParsed(
        parseFiles(filesToRead(0, allowedLayerIndicesOf(layerIndex)), readFile, enabled,
                   [issues |-> <<>>, parsedLayers |-> EmptyParsedLayers]),
        allowedLayerIndicesOf(layerIndex), pairsToValidateOf(layerIndex), enabled)

-----------------------------------------------------------------------------
(* resolution-writer.ts                                                    *)

\* ResolutionEdit with the fault of writing back the level the marker had
ResolutionEditKeepingLevel(token, actualResolution) ==
    [filePath |-> token.filePath, line |-> token.line,
     offset |-> token.offset, length |-> token.length,
     oldText |-> <<>>,
     newText |-> token.id \o resolutionSeparator
                     \o (IF token.resolution # <<>> THEN token.resolution
                         ELSE actualResolution),
     definitionId |-> token.id,
     oldResolution |-> token.resolution,
     newResolution |-> actualResolution]

\* ResolutionEdit with the fault of writing the name of the first layer
ResolutionEditFirstLayer(token, actualResolution) ==
    [filePath |-> token.filePath, line |-> token.line,
     offset |-> token.offset, length |-> token.length,
     oldText |-> <<>>,
     newText |-> token.id \o resolutionSeparator \o LayerAt(0).name,
     definitionId |-> token.id,
     oldResolution |-> token.resolution,
     newResolution |-> actualResolution]

\* The edit both modes push (lines 244-254 and 258-268)
ResolutionEdit(token, actualResolution) ==
    [filePath |-> token.filePath, line |-> token.line,
     offset |-> token.offset, length |-> token.length,
     oldText |-> <<>>,
     newText |-> token.id \o resolutionSeparator \o actualResolution,
     definitionId |-> token.id,
     oldResolution |-> token.resolution,
     newResolution |-> actualResolution]

\* editsOfToken with the fault of not looking for a marker whose level is unknown
editsOfTokenIgnoringMarker(token, layerIndex, graph, options) ==
    LET actualIndex == IF token.id \in DOMAIN graph.reachById
                       THEN graph.reachById[token.id].terminal
                       ELSE layerIndex
        actualResolution == LayerAt(actualIndex).name
    IN  (IF options.set /\ token.resolution = <<>>
         THEN << ResolutionEdit(token, actualResolution) >> ELSE <<>>)
        \o (IF options.fix /\ token.resolution # <<>> /\ token.resolution # actualResolution
            THEN << ResolutionEdit(token, actualResolution) >> ELSE <<>>)

\* editsOfToken with the fault of measuring a marker against the layer of
\* the definition and not against the end of its trace
editsOfTokenOwnLayer(token, layerIndex, graph, options) ==
    LET actualResolution == LayerAt(layerIndex).name
        hasMarker == token.length > Len(token.raw)
    IN  (IF options.set /\ token.resolution = <<>> /\ ~hasMarker
         THEN << ResolutionEdit(token, actualResolution) >> ELSE <<>>)
        \o (IF options.fix /\ token.resolution # <<>> /\ token.resolution # actualResolution
            THEN << ResolutionEdit(token, actualResolution) >> ELSE <<>>)

\* The body of the loop over layer.definitions (lines 238-270)
editsOfToken(token, layerIndex, graph, options) ==
    LET actualIndex == IF token.id \in DOMAIN graph.reachById
                       THEN graph.reachById[token.id].terminal
                       ELSE layerIndex
        actualResolution == LayerAt(actualIndex).name
        hasMarker == token.length > Len(token.raw)
    IN  (IF options.set /\ token.resolution = <<>> /\ ~hasMarker
         THEN << ResolutionEdit(token, actualResolution) >> ELSE <<>>)
        \o (IF options.fix /\ token.resolution # <<>> /\ token.resolution # actualResolution
            THEN << ResolutionEdit(token, actualResolution) >> ELSE <<>>)

RECURSIVE editsOfTokens(_, _, _, _)
editsOfTokens(tokens, layerIndex, graph, options) ==
    IF tokens = <<>> THEN <<>>
    ELSE editsOfToken(Head(tokens), layerIndex, graph, options)
         \o editsOfTokens(Tail(tokens), layerIndex, graph, options)

RECURSIVE editsFromLayer(_, _, _, _)
editsFromLayer(layerIndex, parsed, graph, options) ==
    IF layerIndex >= LayerCount THEN <<>>
    ELSE editsOfTokens(parsed[layerIndex].definitions, layerIndex, graph, options)
         \o editsFromLayer(layerIndex + 1, parsed, graph, options)

\* computeResolutionEdits(config, analysis, resolution, options)
computeResolutionEdits(parsed, graph, options) == editsFromLayer(0, parsed, graph, options)

\* editsByFile: the file paths in the order of their first edit
RECURSIVE editedFiles(_, _)
editedFiles(fileEdits, seen) ==
    IF fileEdits = <<>> THEN seen
    ELSE editedFiles(Tail(fileEdits),
             IF \E i \in 1..Len(seen) : seen[i] = Head(fileEdits).filePath THEN seen
             ELSE Append(seen, Head(fileEdits).filePath))

\* [...fileEdits].sort((a, b) => b.offset - a.offset), a stable sort
RECURSIVE insertByOffset(_, _)
insertByOffset(sorted, edit) ==
    IF sorted = <<>> THEN << edit >>
    ELSE IF Head(sorted).offset >= edit.offset
    THEN << Head(sorted) >> \o insertByOffset(Tail(sorted), edit)
    ELSE << edit >> \o sorted

\* sortByOffset with the fault of leaving the edits in the order computed
sortByOffsetUnsorted(fileEdits) == fileEdits

RECURSIVE sortByOffset(_)
sortByOffset(fileEdits) ==
    IF fileEdits = <<>> THEN <<>>
    ELSE insertByOffset(sortByOffset(SubSeq(fileEdits, 1, Len(fileEdits) - 1)),
                        fileEdits[Len(fileEdits)])

\* spliceEdits with the fault of skipping an edit whose range is empty
RECURSIVE spliceEditsSkippingEmpty(_, _, _)
spliceEditsSkippingEmpty(content, sorted, applied) ==
    IF sorted = <<>> THEN [thrown |-> FALSE, text |-> content, edits |-> applied]
    ELSE LET edit == Head(sorted)
             existing == Slice(content, edit.offset, edit.offset + edit.length)
         IN  IF existing = <<>>
             THEN spliceEditsSkippingEmpty(content, Tail(sorted), applied)
             ELSE spliceEditsSkippingEmpty(Slice(content, 0, edit.offset) \o edit.newText
                                  \o SliceFrom(content, edit.offset + edit.length),
                              Tail(sorted),
                              Append(applied, [edit EXCEPT !.oldText = existing]))

\* The loop over the sorted edits of one file (lines 305-320): the spliced
\* text and the edits applied, or the throw at the first empty slice
RECURSIVE spliceEdits(_, _, _)
spliceEdits(content, sorted, applied) ==
    IF sorted = <<>> THEN [thrown |-> FALSE, text |-> content, edits |-> applied]
    ELSE LET edit == Head(sorted)
             existing == Slice(content, edit.offset, edit.offset + edit.length)
         IN  IF existing = <<>>
             THEN [thrown |-> TRUE, text |-> content, edits |-> applied]
             ELSE spliceEdits(Slice(content, 0, edit.offset) \o edit.newText
                                  \o SliceFrom(content, edit.offset + edit.length),
                              Tail(sorted),
                              Append(applied, [edit EXCEPT !.oldText = existing]))

\* applyToFiles with the fault of writing the files of a dry run
RECURSIVE applyToFilesAlwaysWriting(_, _, _, _)
applyToFilesAlwaysWriting(paths, fileEdits, dryRun, acc) ==
    IF paths = <<>> THEN acc
    ELSE LET spliced == spliceEdits(acc.files[Head(paths)],
                            sortByOffset(SelectSeq(fileEdits,
                                LAMBDA edit : edit.filePath = Head(paths))),
                            acc.edits)
         IN  IF spliced.thrown
             THEN [acc EXCEPT !.thrown = TRUE]
             ELSE applyToFilesAlwaysWriting(Tail(paths), fileEdits, dryRun,
                      [thrown |-> FALSE,
                       files |-> [acc.files EXCEPT ![Head(paths)] = spliced.text],
                       edits |-> spliced.edits,
                       filesWritten |-> IF dryRun THEN acc.filesWritten
                                        ELSE acc.filesWritten + 1])

\* The loop over editsByFile (lines 299-326)
RECURSIVE applyToFiles(_, _, _, _)
applyToFiles(paths, fileEdits, dryRun, acc) ==
    IF paths = <<>> THEN acc
    ELSE LET spliced == spliceEdits(acc.files[Head(paths)],
                            sortByOffset(SelectSeq(fileEdits,
                                LAMBDA edit : edit.filePath = Head(paths))),
                            acc.edits)
         IN  IF spliced.thrown
             THEN [acc EXCEPT !.thrown = TRUE]
             ELSE applyToFiles(Tail(paths), fileEdits, dryRun,
                      [thrown |-> FALSE,
                       files |-> IF dryRun THEN acc.files
                                 ELSE [acc.files EXCEPT ![Head(paths)] = spliced.text],
                       edits |-> spliced.edits,
                       filesWritten |-> IF dryRun THEN acc.filesWritten
                                        ELSE acc.filesWritten + 1])

\* applyResolutionEdits(rootPath, edits, dryRun) on the files as they are:
\* the files afterwards, whether it threw, and {edits, filesWritten}
applyResolutionEdits(files, fileEdits, dryRun) ==
    applyToFiles(editedFiles(fileEdits, <<>>), fileEdits, dryRun,
                 [thrown |-> FALSE, files |-> files, edits |-> <<>>, filesWritten |-> 0])

-----------------------------------------------------------------------------
(* cli.ts: a run with --set-resolution or --fix-resolution                 *)

\* Most runs of the command line, one after the other, on the same files
MaxRuns == 2

\* Most changes made to the files behind the tool's back
MaxChanges == 1

\* What the files of a project may hold
WriterTexts(filePath) ==
    CASE filePath = "l0.md" ->
             { Spaced(Id("A", "1"), Id("A", "2")),
               Spaced(Marked(Id("A", "1"), Str_L1), Marked(Id("A", "2"), Str_M1)),
               JoinLines(<< Marked(Id("A", "1"), Str_L0), Id("A", "2") >>),
               Marked(Id("A", "1"), Str_Zz),
               Spaced(Id("A", "1"), groupingEnd) }
      [] filePath = "l1.md" ->
             { <<>>,
               Spaced(Id("B", "1"), Group(Id("A", "1"))),
               Spaced(Marked(Id("B", "1"), Str_L2), GroupOfTwo(Id("A", "1"), Id("A", "2"))),
               Spaced(Id("B", "1"), Group(passthroughPrefix)) }
      [] filePath = "l2a.md" ->
             { <<>>, Spaced(Id("C", "1"), Group(Id("B", "1"))) }
      [] filePath = "l2b.md" -> { <<>> }

\* The projects a run may find on disk
Projects ==
    {("l0.md" :> t0) @@ ("l1.md" :> t1) @@ ("l2a.md" :> t2a) @@ ("l2b.md" :> t2b) :
        t0 \in WriterTexts("l0.md"), t1 \in WriterTexts("l1.md"),
        t2a \in WriterTexts("l2a.md"), t2b \in WriterTexts("l2b.md")}

\* The scopes a run is started with: none, or the boundary below layer 1
WriterScopes == {<<>>, <<1>>}

updateRequested == cliOptions.setResolution \/ cliOptions.fixResolution

Fatal(message) == [fatal |-> TRUE, message |-> message]

HasIssue(codes) == \E k \in 1..Len(issues) : issues[k].code \in codes

WriterInit ==
    /\ pc = "analyse"
    /\ resEnabled \in BOOLEAN
    /\ layerScope \in WriterScopes
    /\ disk \in Projects
    /\ cliOptions \in [setResolution : BOOLEAN, fixResolution : BOOLEAN, dryRun : BOOLEAN]
    /\ updateRequested
    /\ edits = <<>>
    /\ result = <<>>
    /\ runs = 1
    /\ touched = 0
    /\ fileText = <<>>
    /\ parsedLayers = EmptyParsedLayers
    /\ issues = <<>>
    /\ traceGraph = NoTraceGraph
    /\ cursor = 0
    /\ text = <<>>
    /\ fileLayer = 0
    /\ ps = NoParse

\* The analysis a run keeps: issues, parsedLayers, traceGraph, and the text
\* each file had when it was read
KeepAnalysis(analysis, read) ==
    /\ issues' = analysis.issues
    /\ parsedLayers' = analysis.parsedLayers
    /\ traceGraph' = analysis.traceGraph
    /\ fileText' = [path \in {read[k].relativePath : k \in 1..Len(read)} |-> disk[path]]

\* cli.ts 238-248: the files are read and analysed
Analyse ==
    /\ pc = "analyse"
    /\ KeepAnalysis(validateTraceability(disk, layerScope, resEnabled),
                    filesToRead(0, allowedLayerIndices))
    /\ pc' = "preconditions"
    /\ UNCHANGED <<resEnabled, layerScope, cursor, parserVars, disk, cliOptions, edits,
                   result, runs, touched>>

\* CheckPreconditions with the fault of letting fix mode pass unknown levels
CheckPreconditionsPassingE110 ==
    /\ pc = "preconditions"
    /\ IF ~resEnabled
       THEN /\ result' = Fatal("Resolution markers are disabled")
            /\ pc' = "exit"
       ELSE IF HasIssue({"E010", "E020"})
       THEN /\ result' = Fatal("Cannot update resolutions due to parse errors")
            /\ pc' = "exit"
       ELSE /\ result' = result
            /\ pc' = "compute"
    /\ UNCHANGED <<resEnabled, validateVars, parserVars, disk, cliOptions, edits, runs, touched>>

\* cli.ts 250-267: the three throws before any edit is computed
CheckPreconditions ==
    /\ pc = "preconditions"
    /\ IF ~resEnabled
       THEN /\ result' = Fatal("Resolution markers are disabled")
            /\ pc' = "exit"
       ELSE IF HasIssue({"E010", "E020"})
       THEN /\ result' = Fatal("Cannot update resolutions due to parse errors")
            /\ pc' = "exit"
       ELSE IF cliOptions.fixResolution /\ HasIssue({"E110"})
       THEN /\ result' = Fatal("Cannot fix resolutions with unknown resolution levels")
            /\ pc' = "exit"
       ELSE /\ result' = result
            /\ pc' = "compute"
    /\ UNCHANGED <<resEnabled, validateVars, parserVars, disk, cliOptions, edits, runs, touched>>

\* cli.ts 269-272: computeResolutionEdits
ComputeEdits ==
    /\ pc = "compute"
    /\ edits' = computeResolutionEdits(parsedLayers, traceGraph,
                    [set |-> cliOptions.setResolution, fix |-> cliOptions.fixResolution])
    /\ pc' = "apply"
    /\ UNCHANGED <<resEnabled, validateVars, parserVars, disk, cliOptions, result, runs, touched>>

\* Somebody else rewrites a file between the analysis and the apply step
ChangeFile ==
    /\ pc = "apply"
    /\ touched < MaxChanges
    /\ \E path \in DOMAIN disk :
           \E content \in WriterTexts(path) \ {disk[path]} :
               disk' = [disk EXCEPT ![path] = content]
    /\ touched' = touched + 1
    /\ UNCHANGED <<pc, resEnabled, validateVars, parserVars, cliOptions, edits, result, runs>>

\* What applyResolutionEdits leaves behind: the files, and its result or throw
KeepApplied(applied) ==
    /\ disk' = applied.files
    /\ result' = IF applied.thrown
                 THEN Fatal("Resolution update failed: empty token")
                 ELSE [fatal |-> FALSE, edits |-> applied.edits,
                       filesWritten |-> applied.filesWritten]

\* cli.ts 273 and on: applyResolutionEdits, then the report and the exit
ApplyEdits ==
    /\ pc = "apply"
    /\ KeepApplied(applyResolutionEdits(disk, edits, cliOptions.dryRun))
    /\ pc' = "exit"
    /\ UNCHANGED <<resEnabled, validateVars, parserVars, cliOptions, edits, runs, touched>>

\* The same command line is run again
RunAgain ==
    /\ pc = "exit"
    /\ runs < MaxRuns
    /\ runs' = runs + 1
    /\ pc' = "analyse"
    /\ edits' = <<>>
    /\ UNCHANGED <<resEnabled, validateVars, parserVars, disk, cliOptions, result, touched>>

WriterNext ==
    \/ Analyse
    \/ CheckPreconditions
    \/ ComputeEdits
    \/ ChangeFile
    \/ ApplyEdits
    \/ RunAgain

SpecWriter == WriterInit /\ [][WriterNext]_vars

-----------------------------------------------------------------------------
(* Properties of the update of markers                                     *)

\* The run is over
Exited == pc = "exit"

\* No file the run has read differs from what the run read
NothingWritten == \A path \in DOMAIN fileText : disk[path] = fileText[path]

\* One of the three conditions that forbid an update holds for the analysis
PreconditionFails ==
    \/ ~resEnabled
    \/ \E k \in 1..Len(issues) : issues[k].code = "E010" \/ issues[k].code = "E020"
    \/ /\ cliOptions.fixResolution
       /\ \E k \in 1..Len(issues) : issues[k].code = "E110"

\* C13: a run with --set-resolution or --fix-resolution whose analysis has
\* resolution disabled, or holds an E010 or E020, or (fix mode) holds an
\* E110, ends with a fatal error, computes no edit and writes no file; it
\* never reaches the computing or the applying of edits.
C13_PreconditionsAreFatal ==
    /\ (pc \in {"compute", "apply"}) => ~PreconditionFails
    /\ (Exited /\ PreconditionFails) =>
          /\ result # <<>>
          /\ result.fatal
          /\ edits = <<>>
          /\ NothingWritten

\* C13 witness: a fix run has ended fatally on an analysis whose only
\* obstacle is an E110, with a marker in the files that fix mode would change
C13_Witness ==
    /\ Exited
    /\ resEnabled
    /\ cliOptions.fixResolution
    /\ \A k \in 1..Len(issues) : issues[k].code \notin {"E010", "E020"}
    /\ \E k \in 1..Len(issues) : issues[k].code = "E110"
    /\ \E k \in 1..Len(issues) : issues[k].code = "E220"
    /\ result.fatal

\* The edits computed for the place of a definition token
EditsAt(token) ==
    SelectSeq(edits, LAMBDA edit : edit.filePath = token.filePath /\ edit.offset = token.offset)

\* In the text as analysed, no marker separator stands right behind the id
Unmarked(token) ==
    ~StartsWith(fileText[token.filePath], resolutionSeparator, token.offset + Len(token.id))

\* The edits of this run are computed and not yet applied
EditsComputed == pc = "apply"

\* What an edit at the token must be: the token's range replaced by the id,
\* the separator and the name of the layer its reach ends at
IsEditTo(edit, layerIndex, token) ==
    /\ edit.newText = token.id \o resolutionSeparator \o LayerAt(Reach(layerIndex, token.id)).name
    /\ edit.offset = token.offset
    /\ edit.length = token.length
    /\ edit.line = token.line

\* C14: in set mode, a definition token gets an edit exactly when no marker
\* stands behind it in the analysed text; the edit is unique, covers the id
\* and writes <id><separator><name of the layer at the end of its reach>.
\* (When fix mode runs along, a marked token may get the edit of C15.)
C14_SetModeEdits ==
    (EditsComputed /\ cliOptions.setResolution) =>
        /\ \A layerIndex \in LayerIndices :
              \A k \in 1..Len(Definitions(layerIndex)) :
                  LET token == Definitions(layerIndex)[k]
                  IN  IF Unmarked(token)
                      THEN /\ Len(EditsAt(token)) = 1
                           /\ IsEditTo(EditsAt(token)[1], layerIndex, token)
                           /\ token.length = Len(token.id)
                      ELSE ~cliOptions.fixResolution => EditsAt(token) = <<>>
        /\ \A e \in 1..Len(edits) :
              \E layerIndex \in LayerIndices :
                  \E k \in 1..Len(Definitions(layerIndex)) :
                      /\ Definitions(layerIndex)[k].filePath = edits[e].filePath
                      /\ Definitions(layerIndex)[k].offset = edits[e].offset

\* C14 witness: a set run has computed an edit that names a later layer than
\* the definition's own, and has left a marked definition alone
C14_Witness ==
    /\ EditsComputed
    /\ cliOptions.setResolution
    /\ ~cliOptions.fixResolution
    /\ \E e \in 1..Len(edits) :
          /\ matchesAny(0, edits[e].definitionId)
          /\ edits[e].newResolution = Str_L1
    /\ \E k \in 1..Len(Definitions(0)) :
          ~Unmarked(Definitions(0)[k]) /\ EditsAt(Definitions(0)[k]) = <<>>

\* The level written behind the marker separator at a 0-based index of a text
LevelIn(content, index) ==
    LET from == index + Len(resolutionSeparator)
        ends == {e \in from..Len(content) :
                    \A i \in (from + 1)..e : isAllowedTokenChar(content[i])}
    IN  Slice(content, from, Maximum(ends))

\* The layer name a definition's marker stands for in the analysed text:
\* the level itself if it names a layer, the layer its alias maps to, else <<>>
MarkedLayer(token) ==
    IF Unmarked(token) THEN <<>>
    ELSE LET level == LevelIn(fileText[token.filePath], token.offset + Len(token.id))
         IN  IF level \in layerNames THEN level
             ELSE IF level \in DOMAIN aliasToName THEN aliasToName[level]
             ELSE <<>>

\* C15: in fix mode, a definition token whose marker stands for a layer gets
\* an edit exactly when that layer's name differs from the name of the layer
\* its reach ends at; the edit is unique, covers id and marker, and writes
\* <id><separator><that name>. A marker that names the end of the reach,
\* directly or through an alias, gets no edit; in a run without set mode an
\* unmarked definition gets none either.
C15_FixModeEdits ==
    (EditsComputed /\ cliOptions.fixResolution) =>
        \A layerIndex \in LayerIndices :
            \A k \in 1..Len(Definitions(layerIndex)) :
                LET token == Definitions(layerIndex)[k]
                    actual == LayerAt(Reach(layerIndex, token.id)).name
                IN  IF MarkedLayer(token) # <<>>
                    THEN IF MarkedLayer(token) # actual
                         THEN /\ Len(EditsAt(token)) = 1
                              /\ IsEditTo(EditsAt(token)[1], layerIndex, token)
                              /\ token.length > Len(token.id)
                         ELSE EditsAt(token) = <<>>
                    ELSE ~cliOptions.setResolution => EditsAt(token) = <<>>

\* C15 witness: a fix run has computed an edit for a marker that names a
\* wrong layer and none for an alias that names the end of the reach
C15_Witness ==
    /\ EditsComputed
    /\ cliOptions.fixResolution
    /\ \E e \in 1..Len(edits) :
          /\ edits[e].oldResolution = Str_L2
          /\ edits[e].newResolution = Str_L1
    /\ \E k \in 1..Len(Definitions(0)) :
          LET token == Definitions(0)[k]
          IN  /\ ~Unmarked(token)
              /\ LevelIn(fileText[token.filePath], token.offset + Len(token.id)) = Str_M1
              /\ EditsAt(token) = <<>>

\* The run before this one applied its edits to the files without a fatal
\* error, and nothing else has changed the files since the first analysis
AppliedBefore ==
    /\ runs > 1
    /\ touched = 0
    /\ ~cliOptions.dryRun
    /\ result # <<>>
    /\ ~result.fatal

\* C16: when a run in a mode (set, fix, or both) has applied its edits, the
\* next run of the same mode on the files it left, once it has analysed them
\* and computed its edits, has computed none.
C16_SecondRunHasNoEdits ==
    (AppliedBefore /\ EditsComputed) => edits = <<>>

\* C16 witness: the first run wrote a file, and the second run has analysed
\* the rewritten files and computed its (empty) list of edits
C16_Witness ==
    /\ AppliedBefore
    /\ result.filesWritten > 0
    /\ \E e \in 1..Len(result.edits) : result.edits[e].oldResolution # <<>>
    /\ \E e \in 1..Len(result.edits) : result.edits[e].oldResolution = <<>>
    /\ EditsComputed
    /\ edits = <<>>

\* The step in which applyResolutionEdits runs
Applying == pc = "apply" /\ pc' = "exit"

\* The files are what the analysis read
AsAnalysed == \A path \in DOMAIN fileText : disk[path] = fileText[path]

\* The returned edits are the computed ones, each with the text its range
\* holds in the file filled in as oldText
ReturnedAre(returned, computed, files) ==
    /\ Len(returned) = Len(computed)
    /\ \A e \in 1..Len(computed) :
          \E r \in 1..Len(returned) :
              returned[r] = [computed[e] EXCEPT !.oldText =
                                Slice(files[computed[e].filePath], computed[e].offset,
                                      computed[e].offset + computed[e].length)]

C17_Step ==
    Applying =>
        /\ (cliOptions.dryRun \/ edits = <<>>) =>
              /\ disk' = disk
              /\ ~result'.fatal => result'.filesWritten = 0
        /\ edits = <<>> => result' = [fatal |-> FALSE, edits |-> <<>>, filesWritten |-> 0]
        /\ (cliOptions.dryRun /\ ~result'.fatal) => ReturnedAre(result'.edits, edits, disk)
        /\ (cliOptions.dryRun /\ AsAnalysed) => ~result'.fatal

\* C17: applyResolutionEdits leaves every file as it is when it runs as a dry
\* run or with an empty list of edits, and reports no file written; with an
\* empty list it returns no edit; as a dry run on the files as analysed it
\* returns, and what it returns are the computed edits (each with the old text
\* of its range filled in) with filesWritten = 0.
C17_DryRunWritesNothing == [][C17_Step]_vars

\* C17 witness: a dry run with edits in two files has ended; it returned the
\* edits, counted no file as written and left the files as they were read
C17_Witness ==
    /\ Exited
    /\ cliOptions.dryRun
    /\ result # <<>>
    /\ ~result.fatal
    /\ result.filesWritten = 0
    /\ \E a, b \in 1..Len(result.edits) : result.edits[a].filePath # result.edits[b].filePath
    /\ Len(result.edits) = Len(edits)
    /\ AsAnalysed

\* The text an edit's range holds in a file
RangeText(content, edit) == Slice(content, edit.offset, edit.offset + edit.length)

\* The files that hold an edit whose range no longer holds the analysed text
StaleFiles ==
    {edits[e].filePath : e \in {k \in 1..Len(edits) :
        RangeText(disk[edits[k].filePath], edits[k])
            # RangeText(fileText[edits[k].filePath], edits[k])}}

C18_Step ==
    (Applying /\ StaleFiles # {}) =>
        /\ result'.fatal
        /\ \A path \in StaleFiles : disk'[path] = disk[path]

\* C18: when the applying step finds a file in which the range of an edit no
\* longer holds the text it held at analysis, the run ends with a fatal error
\* and that file is not written.
C18_StaleRangeIsFatal == [][C18_Step]_vars

-----------------------------------------------------------------------------
(* Properties of a validation under a --layer scope                        *)

\* The run validates one boundary only
Scoped == layerScope # <<>>

\* The definition's marker names a layer that is not one of the two in scope
AnnotatedOutside(token) ==
    /\ token.resolution # <<>>
    /\ layerIndexOfName(token.resolution) \notin allowedLayerIndices

\* C20 as the specification states it: at the end of a run under a --layer
\* scope, a definition whose annotated layer is outside the two layers in
\* scope has neither an E211 nor an E220 at its place.
C20_NoResolutionIssueOutsideScope ==
    (Done /\ resEnabled /\ Scoped) =>
        \A D \in LayerIndices : \A i \in 1..Len(Definitions(D)) :
            LET token == Definitions(D)[i]
            IN  AnnotatedOutside(token) =>
                    /\ Len(OutOfOrderIssues(token)) = 0
                    /\ Len(MismatchIssues(token)) = 0

\* C20: at the end of a run under a --layer scope, a definition whose
\* annotated layer is outside the two layers in scope has no E220 at its
\* place; it has an E211 exactly when the annotated layer precedes the layer
\* of the definition, one for each definition annotated alike at its place.
C20_NoMismatchOutsideScope ==
    (Done /\ resEnabled /\ Scoped) =>
        \A D \in LayerIndices : \A i \in 1..Len(Definitions(D)) :
            LET token == Definitions(D)[i]
            IN  AnnotatedOutside(token) =>
                    /\ Len(MismatchIssues(token)) = 0
                    /\ Len(OutOfOrderIssues(token))
                       = IF layerIndexOfName(token.resolution) < D
                         THEN Cardinality(SamePlace(D, token)) ELSE 0

\* C20 witness: a scoped run has ended; a definition annotated with a later
\* layer out of scope, whose trace ends before that layer, has no issue at
\* its place
C20_Witness ==
    /\ Done
    /\ resEnabled
    /\ Scoped
    /\ \E D \in LayerIndices : \E i \in 1..Len(Definitions(D)) :
          /\ AnnotatedOutside(Definitions(D)[i])
          /\ D \in allowedLayerIndices
          /\ layerIndexOfName(Definitions(D)[i].resolution) > D
          /\ layerIndexOfName(Definitions(D)[i].resolution) # Reach(D, Definitions(D)[i].id)
          /\ Len(MismatchIssues(Definitions(D)[i])) = 0
          /\ Len(OutOfOrderIssues(Definitions(D)[i])) = 0

-----------------------------------------------------------------------------
(* The order of the issue list                                             *)

ParseCodes == {"E010", "E020", "E110", "E111"}

AdjacencyCodes == {"E030", "E101"}

ResolutionCodes == {"E211", "E220"}

\* The phase that emits a code
PhaseOf(code) ==
    IF code \in ParseCodes THEN 1 ELSE IF code \in AdjacencyCodes THEN 2 ELSE 3

\* The layer a file belongs to
LayerOfFile(filePath) ==
    CHOOSE index \in LayerIndices :
        \E i \in 1..Len(collectionFiles[index + 1]) : collectionFiles[index + 1][i] = filePath

\* The boundary (its downstream layer) an adjacency issue belongs to: an E030
\* stands at a reference in the downstream file, an E101 at a definition in
\* the upstream file
BoundaryOf(issue) ==
    IF issue.code = "E030" THEN LayerOfFile(issue.filePath)
    ELSE LayerOfFile(issue.filePath) + 1

IssuesWith(codes) == SelectSeq(issues, LAMBDA issue : issue.code \in codes)

\* C19: in the issue list, at any moment of a run and at its end, parse
\* issues stand before adjacency issues and these before resolution issues,
\* adjacency issues stand in ascending order of their boundary and
\* resolution issues in ascending order of their layer; and at the end of a
\* run the adjacency and the resolution issues are all those the parsed
\* layers and the trace graph call for, whatever issues earlier phases left.
C19_IssueOrder ==
    /\ \A i, j \in 1..Len(issues) :
          i < j =>
              /\ PhaseOf(issues[i].code) <= PhaseOf(issues[j].code)
              /\ (issues[i].code \in AdjacencyCodes /\ issues[j].code \in AdjacencyCodes)
                     => BoundaryOf(issues[i]) <= BoundaryOf(issues[j])
              /\ (issues[i].code \in ResolutionCodes /\ issues[j].code \in ResolutionCodes)
                     => LayerOfFile(issues[i].filePath) <= LayerOfFile(issues[j].filePath)
    /\ Done =>
          /\ IssuesWith(AdjacencyCodes)
             = adjacencyIssues(pairsToValidate, allowedLayerIndices, resEnabled, traceGraph)
          /\ IssuesWith(ResolutionCodes)
             = IF resEnabled
               THEN resolutionIssuesFrom(0, parsedLayers, allowedLayerIndices, traceGraph)
               ELSE <<>>

\* C19 witness: a run has ended with a parse issue, adjacency issues of both
\* boundaries and resolution issues of two layers in its list
C19_Witness ==
    /\ Done
    /\ \E i \in 1..Len(issues) : issues[i].code \in ParseCodes
    /\ \E i, j \in 1..Len(issues) :
          /\ issues[i].code \in AdjacencyCodes /\ issues[j].code \in AdjacencyCodes
          /\ BoundaryOf(issues[i]) < BoundaryOf(issues[j])
    /\ \E i, j \in 1..Len(issues) :
          /\ issues[i].code \in ResolutionCodes /\ issues[j].code \in ResolutionCodes
          /\ LayerOfFile(issues[i].filePath) < LayerOfFile(issues[j].filePath)

-----------------------------------------------------------------------------
(* Properties of the parser: prose, termination, references                *)

\* The id a candidate stands for: what precedes the first marker separator
\* that follows a well-formed id, or the whole candidate
IdPart(value) ==
    LET cuts == {k \in 1..Len(value) :
                    /\ StartsWith(value, resolutionSeparator, k)
                    /\ GLOBAL_ID_REGEX(SubSeq(value, 1, k))}
    IN  IF cuts = {} THEN value
        ELSE SubSeq(value, 1, CHOOSE k \in cuts : \A other \in cuts : k <= other)

\* The candidate is an id of neither the file's layer nor the layer before it
Prose(value) ==
    /\ ~matchesAny(fileLayer, value)
    /\ ~matchesAny(fileLayer - 1, value)
    /\ ~matchesAny(fileLayer, IdPart(value))
    /\ ~matchesAny(fileLayer - 1, IdPart(value))

\* A grouping piece that is the passthrough prefix and nothing else (an E020)
BarePrefix(piece) ==
    /\ StartsWith(piece, passthroughPrefix, 0)
    /\ Trim(SliceFrom(piece, Len(passthroughPrefix))) = <<>>

\* The step hands the token buffer to handleToken
FlushesToken == ~ps.returned /\ ~ps.inGrouping /\ ps.tokenBuffer # <<>> /\ ps'.tokenBuffer = <<>>

\* The issues a step adds, the E010 of a delimiter aside
addedTokenIssues == SelectSeq(addedIssues, LAMBDA issue : issue.code # "E010")

C21_Step ==
    /\ (FlushesToken /\ Prose(ps.tokenBuffer)) =>
          /\ addedDefinitions = <<>>
          /\ addedReferences = <<>>
          /\ addedTokenIssues = <<>>
    /\ (InsideGrouping /\ AtGroupingEnd
          /\ \A span \in PieceSpans(ps.groupingBuffer) :
                /\ Prose(normalizedPiece(Piece(ps.groupingBuffer, span)))
                /\ ~BarePrefix(Piece(ps.groupingBuffer, span))) =>
          /\ addedDefinitions = <<>>
          /\ addedReferences = <<>>
          /\ addedTokenIssues = <<>>

\* C21: a candidate token that is an id of neither the file's layer nor the
\* layer before it adds no definition, no reference and no issue, in plain
\* text and in a grouping, with or without a marker behind it.
C21_ProseIsDiscarded == [][C21_Step]_vars

\* One iteration of the scan loop moves the read index forward by at least
\* one character and never past the end of the text; at the end of the text
\* the next step returns the result
C22_Step ==
    ~ps.returned =>
        IF ps.index < Len(text)
        THEN /\ ps'.index > ps.index
             /\ ps'.index <= Len(text)
             /\ ~ps'.returned
        ELSE /\ ps'.returned
             /\ DOMAIN ps'.output = {"definitions", "references", "issues"}

\* C22: parseLayerFile terminates: every iteration of its scan loop, in
\* whatever state (plain text, inside a grouping, at a marker separator),
\* advances the read index by at least one character and never past the end
\* of the text, so the loop runs at most as many times as the text has
\* characters; the step after the last character returns
\* {definitions, references, issues}.
C22_ParserTerminates == [][C22_Step]_vars

\* C22 witness: a parse that went through a grouping and a marker has returned
C22_Witness ==
    /\ ps.returned
    /\ ps.index = Len(text)
    /\ \E k \in 0..Len(text) : StartsWith(text, groupingStart, k)
    /\ \E k \in 0..Len(text) : StartsWith(text, resolutionSeparator, k)
    /\ ps.output.definitions # <<>>
    /\ ps.output.issues # <<>>

\* The token in the buffer stands between two quote characters of a kind
TokenQuoted ==
    LET from == ps.index - Len(ps.tokenBuffer)
    IN  /\ from >= 1
        /\ ps.index < Len(text)
        /\ text[from] \in Quotes
        /\ text[ps.index + 1] = text[from]

C23_Step ==
    /\ addedReferences # <<>> =>
          \/ InsideGrouping /\ AtGroupingEnd
          \/ FlushesToken /\ TokenQuoted
    /\ (FlushesToken /\ ~TokenQuoted) => addedReferences = <<>>

\* C23: a step records references only when it closes a grouping or handles
\* a token that stands in quotes; a token of plain text, outside any grouping
\* and any quotes, never adds a reference, an id of the previous layer
\* included.
C23_ReferencesFromGroupingsOrQuotes == [][C23_Step]_vars

-----------------------------------------------------------------------------
(* Properties of the edges of the trace graph                              *)

\* The node the graph builder hangs the edge of a reference of layer k on
EnclosingNode(k, ref) ==
    downstreamIdOf(buildDefinitionRangesByFile(Definitions(k)), ref)

\* The reference tokens of layer k that name a definition of layer k-1
MatchedReferences(k) ==
    {i \in 1..Len(References(k)) :
        /\ matchesAny(k - 1, References(k)[i].id)
        /\ DefinedIn(k - 1, References(k)[i].id)}

\* C24: once the graph is built, for every validated boundary (k-1, k) and
\* every reference token r of layer k that names a definition U of layer
\* k-1, the edges of the boundary hold U -> E(r), E(r) the node of the
\* definition that encloses r, and the reach of U is at least the reach of
\* E(r).
C24_EveryReferenceHasItsEdge ==
    GraphBuilt =>
        \A k \in ValidatedBoundaries : \A i \in MatchedReferences(k) :
            LET ref == References(k)[i]
            IN  /\ EnclosingNode(k, ref) \in Targets(k, ref.id)
                /\ traceGraph.reachById[ref.id].terminal >= Reach(k, EnclosingNode(k, ref))

\* The places in Definitions(k) of the definition tokens of the file of ref
\* that stand at or before the line of ref
DefinitionsAtOrBefore(k, ref) ==
    {i \in 1..Len(Definitions(k)) :
        /\ Definitions(k)[i].filePath = ref.filePath
        /\ Definitions(k)[i].line <= ref.line}

\* The latest of them: the greatest line, and of those on that line the last
\* in scan order
LatestDefinition(k, ref) ==
    LET before == DefinitionsAtOrBefore(k, ref)
    IN  CHOOSE i \in before : \A j \in before :
            \/ Definitions(k)[j].line < Definitions(k)[i].line
            \/ Definitions(k)[j].line = Definitions(k)[i].line /\ j <= i

\* The reference tokens of layer k that are the first of their id
FirstReferences(k) ==
    {i \in MatchedReferences(k) :
        \A j \in 1..(i - 1) : References(k)[j].id # References(k)[i].id}

\* C25: once the graph is built, the edge of a reference at line n of file f
\* goes to the latest definition token of f at or before line n, the last in
\* scan order when several stand on that line; when f has no definition at
\* or before line n the edge goes to a node of the reference's own file and
\* line with no outgoing edges, so that the reach through it ends at layer k.
C25_EdgeGoesToLatestDefinition ==
    GraphBuilt =>
        \A k \in ValidatedBoundaries : \A i \in FirstReferences(k) :
            LET ref == References(k)[i]
            IN  IF DefinitionsAtOrBefore(k, ref) # {}
                THEN Definitions(k)[LatestDefinition(k, ref)].id \in Targets(k, ref.id)
                ELSE /\ syntheticId(ref) \in Targets(k, ref.id)
                     /\ Targets(k + 1, syntheticId(ref)) = {}
                     /\ Reach(k, syntheticId(ref)) = k
                     /\ \A j \in FirstReferences(k) :
                            syntheticId(References(k)[j]) = syntheticId(ref)
                                => /\ References(k)[j].filePath = ref.filePath
                                   /\ References(k)[j].line = ref.line

-----------------------------------------------------------------------------
(* Properties of the apply step                                            *)

\* The edits of one file, in the order computed
EditsOf(filePath) == SelectSeq(edits, LAMBDA edit : edit.filePath = filePath)

\* The files the edits name
EditedPaths == Range(editedFiles(edits, <<>>))

\* No two of the edits share a character, and each lies within the content
NonOverlapping(content, fileEdits) ==
    /\ \A i \in 1..Len(fileEdits) :
           /\ fileEdits[i].length >= 1
           /\ fileEdits[i].offset + fileEdits[i].length <= Len(content)
    /\ \A i, j \in 1..Len(fileEdits) :
           i # j => \/ fileEdits[i].offset + fileEdits[i].length <= fileEdits[j].offset
                    \/ fileEdits[j].offset + fileEdits[j].length <= fileEdits[i].offset

\* The content from position on with every range replaced at once: a range
\* that starts at the position gives its edit's new text, any other character
\* is kept
RECURSIVE ReplacedFrom(_, _, _)
ReplacedFrom(content, fileEdits, position) ==
    IF position >= Len(content) THEN <<>>
    ELSE IF \E i \in 1..Len(fileEdits) : fileEdits[i].offset = position
    THEN LET edit == fileEdits[CHOOSE i \in 1..Len(fileEdits) : fileEdits[i].offset = position]
         IN  edit.newText \o ReplacedFrom(content, fileEdits, position + edit.length)
    ELSE << content[position + 1] >> \o ReplacedFrom(content, fileEdits, position + 1)

C26_Step ==
    (Applying /\ ~cliOptions.dryRun /\ ~result'.fatal) =>
        \A path \in EditedPaths :
            NonOverlapping(disk[path], EditsOf(path))
                => disk'[path] = ReplacedFrom(disk[path], EditsOf(path), 0)

\* C26: when the edits of a file do not overlap, the apply step, which
\* splices them one at a time in descending offset order, writes the text
\* that replaces every range of the original at once: each range gives its
\* edit's new text, every other character is kept, in order.
C26_SpliceIsReplaceAtOnce == [][C26_Step]_vars

\* C26 witness: a run has written a file with two edits that change its
\* length
C26_Witness ==
    /\ Exited
    /\ result # <<>>
    /\ ~result.fatal
    /\ result.filesWritten > 0
    /\ \E i, j \in 1..Len(result.edits) :
           /\ i # j
           /\ result.edits[i].filePath = result.edits[j].filePath
           /\ Len(result.edits[i].newText) # result.edits[i].length
           /\ Len(result.edits[j].newText) # result.edits[j].length

\* Every edit starts inside the content, so that none is left out
AllStartWithin(content, fileEdits) ==
    \A i \in 1..Len(fileEdits) :
        fileEdits[i].length >= 1 /\ fileEdits[i].offset < Len(content)

C27_Step ==
    Applying =>
        \A path \in DOMAIN disk :
            \/ disk'[path] = disk[path]
            \/ /\ AllStartWithin(disk[path], EditsOf(path))
               /\ disk'[path] = ReplacedFrom(disk[path], EditsOf(path), 0)

\* C27: the apply step, stopped by a fatal error or not, leaves each file
\* either as it was before the step or with every one of its edits applied;
\* no file is written with only some of its edits.
C27_NoPartialFile == [][C27_Step]_vars

\* C27 witness: the apply step has stopped with a fatal error on a file that
\* has two edits and was changed after the analysis
C27_Witness ==
    /\ Exited
    /\ result # <<>>
    /\ result.fatal
    /\ \E path \in EditedPaths :
           /\ Len(EditsOf(path)) >= 2
           /\ disk[path] # fileText[path]

-----------------------------------------------------------------------------
(* Properties of a validation of the rewritten files                       *)

\* The analysis at hand is the one of the files the run before has rewritten
Revalidated == AppliedBefore /\ pc \in {"preconditions", "compute", "apply"}

\* The marker of the definition token was written by an edit of the run before
WrittenBy(token) ==
    /\ token.resolution # <<>>
    /\ \E e \in 1..Len(result.edits) :
           /\ result.edits[e].filePath = token.filePath
           /\ result.edits[e].line = token.line
           /\ result.edits[e].newText = token.id \o resolutionSeparator \o token.resolution

\* No E211 and no E220 at the token's place names its marker, unless another
\* definition stands there with the same marker, one no edit has written
NotReported(layerIndex, token) ==
    (\A i \in SamePlace(layerIndex, token) : WrittenBy(Definitions(layerIndex)[i]))
        => MismatchIssues(token) = <<>> /\ OutOfOrderIssues(token) = <<>>

WrittenLevelsAgreeWith(analysis) ==
    \A D \in LayerIndices : \A i \in 1..Len(Definitions(D)) :
        LET token == Definitions(D)[i]
        IN  WrittenBy(token) =>
                /\ token.id \in DOMAIN analysis.traceGraph.reachById
                /\ LayerAt(analysis.traceGraph.reachById[token.id].terminal).name
                       = token.resolution

\* C29: when a run in set or fix mode, under a --layer scope or under none,
\* has applied its edits, the level each edit wrote is the level an unscoped
\* run computes for the definition on the same files, so that a full
\* validation of the rewritten files holds no E220 for a marker written under
\* the scope.
C29_ScopedMarkersValidate ==
    Revalidated => WrittenLevelsAgreeWith(validateTraceability(disk, <<>>, TRUE))

C30_Step == (Applying /\ result'.fatal) => disk' = disk

\* C30: when the apply step of a run with edits in several files ends with a
\* fatal error on one of them, it has modified no file: the files that came
\* before the failing one are not left rewritten.
C30_FatalApplyWritesNothing == [][C30_Step]_vars

====
